---- MODULE Spec2Model ----
(***************************************************************************)
(* Shipment-matrix extraction engine of the UPS invoice parser.            *)
(*                                                                         *)
(* Conventions of the model                                                *)
(*  - A Python value that may be None is a sequence: None is <<>> and a    *)
(*    value v is <<v>>, so that None can be compared with any value.       *)
(*  - A shipment dict is a function whose DOMAIN is the set of keys the    *)
(*    dict holds; Get is dict.get (None for a missing key), Put is         *)
(*    dict[key] = value.                                                   *)
(*  - Money is counted in cents (10.00 is 1000): the float sums of the     *)
(*    code are exact integer sums here, float rounding is not modelled.    *)
(***************************************************************************)
EXTENDS Integers, Sequences, FiniteSets, TLC

VARIABLES
    shipment,        \* the record handed to _calculate_correct_totals
    calc_runs,       \* how many times _calculate_correct_totals ran on it
    totals_written,  \* whether the last run took the branch that writes totals
    matrix_shipments,\* merge_direct_fields_with_matrix: the records (merged in place)
    direct_data,     \* merge_direct_fields_with_matrix: the resolver output
    merge_pc,        \* "idle", "input" (before the merge) or "merged"
    before_merge,    \* the records as they were when the merge was called
    words,           \* parse_invoice: the words of the page
    clock_year,      \* datetime.now().year
    shipment_matrices,\* the matrices the segmenter returned to the last parse_invoice
    parse_results,   \* the result_list of each parse_invoice call on the page, in call order
    catalog_log,     \* per parse_invoice call and matrix: the record before and after the
                     \* catalog loop, and the fields whose patterns the loop tried, in order
    header_log,      \* per parse_invoice call: invoice_data as created and as the loop left it
    matches,         \* _extract_field_value: the matches still to be handed to it
    extracting,      \* _extract_field_value: the shipment dict it writes to
    handled,         \* _extract_field_value: the matches handed to it, in call order
    doc,             \* extract_invoice_groups: the pages of the document, in order
    invoice_groups,  \* the groups extract_invoice_groups returned
    groups_pc,       \* "idle", "input" (before the call) or "done"
    block,           \* _extract_five_fields: the words of the shipment block
    five_fields,     \* the dict _extract_five_fields returned
    candidate_fields,\* data of _extract_five_fields after Method 2
    resolve_pc,      \* "idle", "input" (before the call) or "done"
    active_sessions, \* the keys of the module-level dict active_sessions
    pending_joins,   \* session ids whose client still sends join_session
    uploads,         \* per worker thread: session id, pages of the PDF, pages that fail to render
    worker_pc,       \* per worker thread: the step of process_file it is at
    worker_groups,   \* per worker thread: invoice_groups
    all_shipments,   \* per worker thread: the records of the matrix pass
    direct_extracted_data, \* per worker thread: the tuples of the resolver pass
    outcome,         \* per worker thread: what process_invoice_with_progress returned and saved
    files,           \* per worker thread: whether the uploaded PDF and the Excel file exist
    emit_log,        \* per worker thread: the terminal events handed to socketio.emit, and
                     \* the helpers in which socketio.emit raised
    channel_up       \* whether socketio.emit succeeds

totals_vars == <<shipment, calc_runs, totals_written>>
merge_vars == <<matrix_shipments, direct_data, merge_pc, before_merge>>
parse_vars == <<words, clock_year, shipment_matrices, parse_results, catalog_log,
               header_log, matches, extracting, handled>>
groups_vars == <<doc, invoice_groups, groups_pc>>
resolver_vars == <<block, five_fields, candidate_fields, resolve_pc>>
process_vars == <<active_sessions, pending_joins, uploads, worker_pc, worker_groups,
                  all_shipments, direct_extracted_data, outcome, files, emit_log, channel_up>>
document_vars == <<groups_vars, resolver_vars, process_vars>>
vars == <<totals_vars, merge_vars, parse_vars, document_vars>>

\* extract_invoice_groups is not in use
GroupsIdle ==
    /\ doc = <<>>
    /\ invoice_groups = <<>>
    /\ groups_pc = "idle"

\* _extract_five_fields is not in use
ResolverIdle ==
    /\ block = <<>>
    /\ five_fields = <<>>
    /\ candidate_fields = <<>>
    /\ resolve_pc = "idle"

\* no upload was made
ProcessIdle ==
    /\ active_sessions = {}
    /\ pending_joins = {}
    /\ uploads = <<>>
    /\ worker_pc = <<>>
    /\ worker_groups = <<>>
    /\ all_shipments = <<>>
    /\ direct_extracted_data = <<>>
    /\ outcome = <<>>
    /\ files = <<>>
    /\ emit_log = <<>>
    /\ channel_up = TRUE

DocumentIdle == GroupsIdle /\ ResolverIdle /\ ProcessIdle

----------------------------------------------------------------------------
(* Optional values and dicts *)

None == <<>>
Some(v) == <<v>>

Get(d, key) == IF key \in DOMAIN d THEN d[key] ELSE None
Put(d, key, value) == (key :> value) @@ d

\* dict.update(other)
Update(d, other) == other @@ d

EmptyDict == [k \in {} |-> None]

\* Python truthiness of an optional number: None and 0 are falsy
TruthyNum(v) == v # None /\ v[1] # 0

\* isinstance(v, (int, float)) of a non-None value
IsNumber(v) == v # None /\ v[1] \in Int

----------------------------------------------------------------------------
(* Field catalog: UPSFieldMatrix._initialize_enhanced_field_definitions.   *)
(* The sequence keeps the insertion order of the definitions dict.         *)

FieldDef(n, t, p) == [field_name |-> n, data_type |-> t, priority |-> p]

header_definitions ==
    << FieldDef("invoice_number", "string", 1),
       FieldDef("account_number", "string", 1),
       FieldDef("control_id", "string", 2),
       FieldDef("invoice_date", "date", 1),
       FieldDef("shipped_from", "string", 2) >>

core_definitions ==
    << FieldDef("tracking_number", "string", 1),
       FieldDef("pickup_date", "date", 1),
       FieldDef("shipment_date", "date", 1),
       FieldDef("service_type", "string", 1),
       FieldDef("destination_zip", "string", 1),
       FieldDef("origin_zip", "string", 2),
       FieldDef("zone", "integer", 1),
       FieldDef("weight", "float", 1),
       FieldDef("customer_weight", "float", 2),
       FieldDef("billable_weight", "float", 2),
       FieldDef("dimensional_weight", "float", 2),
       FieldDef("dimensions", "string", 2),
       FieldDef("published_charge", "currency", 1),
       FieldDef("incentive_credit", "currency", 1),
       FieldDef("billed_charge", "currency", 1),
       FieldDef("net_charge", "currency", 2) >>

\* the three surcharges defined one by one (priority 1)
named_surcharge_definitions ==
    << FieldDef("residential_surcharge", "currency_triple", 1),
       FieldDef("fuel_surcharge", "currency_triple", 1),
       FieldDef("delivery_area_surcharge", "currency_triple", 1) >>

\* the surcharge_types list, turned into definitions by the loop (priority 2)
surcharge_types ==
    << "large_package_surcharge", "additional_handling", "saturday_delivery",
       "saturday_pickup", "signature_required", "adult_signature_required",
       "direct_signature_required", "address_correction", "over_maximum_limits",
       "peak_surcharge", "holiday_surcharge", "hazmat_surcharge",
       "dry_ice_surcharge", "declared_value_charge", "cod_surcharge",
       "carbon_neutral", "lift_gate_surcharge", "inside_pickup",
       "inside_delivery", "call_tag_surcharge", "quantum_view",
       "ups_premium_care", "missing_pld_fee" >>

listed_surcharge_definitions ==
    [i \in 1..Len(surcharge_types) |-> FieldDef(surcharge_types[i], "currency_triple", 2)]

tail_definitions ==
    << FieldDef("first_reference", "string", 2),
       FieldDef("second_reference", "string", 2),
       FieldDef("third_reference", "string", 2),
       FieldDef("user_id", "string", 2),
       FieldDef("purchase_order", "string", 2),
       FieldDef("sender_name", "string", 2),
       FieldDef("sender_address", "string", 2),
       FieldDef("receiver_name", "string", 2),
       FieldDef("receiver_address", "string", 2),
       FieldDef("cod_amount", "currency", 2),
       FieldDef("declared_value", "currency", 2),
       FieldDef("delivery_date", "date", 2),
       FieldDef("commit_time", "string", 2),
       FieldDef("package_type", "string", 2),
       FieldDef("number_of_packages", "integer", 2),
       FieldDef("message_codes", "string", 2),
       FieldDef("line_total", "currency_triple", 1),
       FieldDef("shipper_account", "string", 2),
       FieldDef("third_party_account", "string", 2) >>

field_definitions ==
    header_definitions \o core_definitions \o named_surcharge_definitions
        \o listed_surcharge_definitions \o tail_definitions

FieldNames == {field_definitions[i].field_name : i \in 1..Len(field_definitions)}

\* the surcharge types the catalog defines (category 'Surcharges')
CatalogSurcharges ==
    {named_surcharge_definitions[i].field_name : i \in 1..Len(named_surcharge_definitions)}
        \cup {surcharge_types[i] : i \in 1..Len(surcharge_types)}

\* the catalog fields of data type currency_triple
CurrencyTripleFields ==
    {field_definitions[i].field_name :
        i \in {j \in 1..Len(field_definitions) :
                  field_definitions[j].data_type = "currency_triple"}}

Components == <<"published", "incentive", "billed">>

\* f"{field_name}_{component}"
SubKey(field_name, component) == field_name \o "_" \o component

Triple(p, i, b) == [published |-> p, incentive |-> i, billed |-> b]

\* the structured value alone, without the three scalar fields
StoreTriple_struct_only(d, field_name, t) == Put(d, field_name, Some(t))

\* The four stores of a currency triple: three scalars and the struct
\* (_extract_all_surcharges and the currency_triple branch of _extract_field_value)
StoreTriple(d, field_name, t) ==
    Put(Put(Put(Put(d, SubKey(field_name, "published"), Some(t.published)),
                       SubKey(field_name, "incentive"), Some(t.incentive)),
                       SubKey(field_name, "billed"), Some(t.billed)),
                       field_name, Some(t))

----------------------------------------------------------------------------
(* Totals Calculator: UPSMatrixProcessor._calculate_correct_totals *)

\* mutation: the total fields themselves are summed in as if they were a surcharge
surcharge_fields_with_line_total ==
    << "fuel_surcharge", "residential_surcharge", "delivery_area_surcharge",
       "large_package_surcharge", "additional_handling", "saturday_delivery",
       "signature_required", "adult_signature_required", "address_correction",
       "over_maximum_limits", "peak_surcharge", "hazmat_surcharge",
       "dry_ice_surcharge", "cod_surcharge", "line_total" >>

\* mutation: the fuel surcharge is left out of the sum
surcharge_fields_without_fuel ==
    << "residential_surcharge", "delivery_area_surcharge",
       "large_package_surcharge", "additional_handling", "saturday_delivery",
       "signature_required", "adult_signature_required", "address_correction",
       "over_maximum_limits", "peak_surcharge", "hazmat_surcharge",
       "dry_ice_surcharge", "cod_surcharge" >>

\* the hard-coded list the calculator sums over
surcharge_fields ==
    << "fuel_surcharge", "residential_surcharge", "delivery_area_surcharge",
       "large_package_surcharge", "additional_handling", "saturday_delivery",
       "signature_required", "adult_signature_required", "address_correction",
       "over_maximum_limits", "peak_surcharge", "hazmat_surcharge",
       "dry_ice_surcharge", "cod_surcharge" >>

\* "if shipment.get('published_charge'): published_total += ..."
AddBaseCharge(d, key, total) ==
    IF TruthyNum(Get(d, key)) THEN total + Get(d, key)[1] ELSE total

\* the loop over surcharge_fields, for one of the three components
RECURSIVE AddSurcharges(_, _, _, _)
AddSurcharges(d, component, i, total) ==
    IF i > Len(surcharge_fields) THEN total
    ELSE LET v == Get(d, SubKey(surcharge_fields[i], component))
         IN  AddSurcharges(d, component, i + 1,
                           IF TruthyNum(v) /\ IsNumber(v) THEN total + v[1] ELSE total)

published_total(d) == AddSurcharges(d, "published", 1, AddBaseCharge(d, "published_charge", 0))
incentive_total(d) == AddSurcharges(d, "incentive", 1, AddBaseCharge(d, "incentive_credit", 0))
billed_total(d)    == AddSurcharges(d, "billed", 1, AddBaseCharge(d, "billed_charge", 0))

\* mutation: a zero total is written too
WritesTotals_always(p, i, b) == p >= 0 \/ i # 0 \/ b >= 0

\* "if published_total > 0 or incentive_total != 0 or billed_total > 0:"
WritesTotals(p, i, b) == p > 0 \/ i # 0 \/ b > 0

\* mutation: totals the catalog pass already stored are kept, as for any other field
calculate_correct_totals_keep_matched(d) ==
    LET p == published_total(d)
        i == incentive_total(d)
        b == billed_total(d)
    IN  IF WritesTotals(p, i, b) /\ Get(d, "line_total") = None
        THEN StoreTriple(d, "line_total", Triple(p, i, b))
        ELSE d

calculate_correct_totals(d) ==
    LET p == published_total(d)
        i == incentive_total(d)
        b == billed_total(d)
    IN  IF WritesTotals(p, i, b)
        THEN StoreTriple(d, "line_total", Triple(p, i, b))
        ELSE d

----------------------------------------------------------------------------
(* The Totals Calculator on the records process_shipment_matrix can build.  *)

\* the merger's variables while a specification does not exercise it
MergeIdle ==
    /\ matrix_shipments = <<>>
    /\ direct_data = <<>>
    /\ merge_pc = "idle"
    /\ before_merge = <<>>

\* the parser's variables while a specification does not exercise it
\* no parse_invoice call was made
NothingParsed ==
    /\ words = <<>>
    /\ shipment_matrices = <<>>
    /\ parse_results = <<>>
    /\ catalog_log = <<>>
    /\ header_log = <<>>

\* _extract_field_value is not called on its own
ExtractIdle ==
    /\ matches = <<>>
    /\ extracting = <<>>
    /\ handled = <<>>

ParseIdle ==
    /\ NothingParsed
    /\ clock_year = 0
    /\ ExtractIdle

MaxSurcharges == 1      \* surcharge triples stored on one record
MaxCalcRuns == 2        \* runs of the calculator on one record

\* amounts the input lines carry, in cents
BaseChoices == { <<None, None, None>>, <<Some(0), Some(0), Some(0)>>,
                 <<Some(1000), Some(-200), Some(800)>>, <<Some(0), Some(-200), None>> }
SurchargeTriples == {Triple(100, 0, 100), Triple(0, 0, 0), Triple(300, -100, 200)}
LineTotalTriples == {Triple(500, 0, 500)}

\* "for field_name in field_definitions: shipment[field_name] = None"
BlankShipment(invoice_data) ==
    [k \in DOMAIN invoice_data \cup FieldNames |->
        IF k \in DOMAIN invoice_data THEN invoice_data[k] ELSE None]

StoredSurcharges(d) == {s \in CatalogSurcharges : Get(d, s) # None}

InitTotals ==
    /\ \E c \in BaseChoices :
          shipment = Put(Put(Put(BlankShipment(EmptyDict), "published_charge", c[1]),
                                 "incentive_credit", c[2]), "billed_charge", c[3])
    /\ calc_runs = 0
    /\ totals_written = FALSE
    /\ MergeIdle
    /\ ParseIdle
    /\ DocumentIdle

\* A stage before the calculator stores the triple of one surcharge line
\* (_extract_all_surcharges, or the catalog pass for the surcharges it alone knows)
ExtractSurcharge(s, t) ==
    /\ calc_runs = 0
    /\ Get(shipment, s) = None
    /\ Cardinality(StoredSurcharges(shipment)) < MaxSurcharges
    /\ shipment' = StoreTriple(shipment, s, t)
    /\ UNCHANGED <<calc_runs, totals_written, merge_vars, parse_vars, document_vars>>

\* The catalog pass stores the triple of a 'Total a b c' line (definitions['line_total'])
ExtractLineTotal(t) ==
    /\ calc_runs = 0
    /\ Get(shipment, "line_total") = None
    /\ shipment' = StoreTriple(shipment, "line_total", t)
    /\ UNCHANGED <<calc_runs, totals_written, merge_vars, parse_vars, document_vars>>

CalculateTotals ==
    /\ calc_runs < MaxCalcRuns
    /\ shipment' = calculate_correct_totals(shipment)
    /\ totals_written' = WritesTotals(published_total(shipment), incentive_total(shipment),
                                      billed_total(shipment))
    /\ calc_runs' = calc_runs + 1
    /\ UNCHANGED <<merge_vars, parse_vars, document_vars>>

NextTotals ==
    \/ \E s \in CatalogSurcharges, t \in SurchargeTriples : ExtractSurcharge(s, t)
    \/ \E t \in LineTotalTriples : ExtractLineTotal(t)
    \/ CalculateTotals

SpecTotals == InitTotals /\ [][NextTotals]_vars

----------------------------------------------------------------------------
(* Claims about the Totals Calculator *)

\* value of an optional amount in a sum: unset counts 0
AmountOrZero(v) == IF v = None THEN 0 ELSE v[1]

CatalogSurchargeSeq ==
    [i \in 1..Len(named_surcharge_definitions) |-> named_surcharge_definitions[i].field_name]
        \o surcharge_types

RECURSIVE SumOverCatalog(_, _, _)
SumOverCatalog(d, component, i) ==
    IF i > Len(CatalogSurchargeSeq) THEN 0
    ELSE AmountOrZero(Get(d, SubKey(CatalogSurchargeSeq[i], component)))
            + SumOverCatalog(d, component, i + 1)

BaseKey(component) ==
    CASE component = "published" -> "published_charge"
      [] component = "incentive" -> "incentive_credit"
      [] component = "billed"    -> "billed_charge"

ExpectedTotal(d, component) ==
    AmountOrZero(Get(d, BaseKey(component))) + SumOverCatalog(d, component, 1)

LineTotalKeys ==
    {"line_total", "line_total_published", "line_total_incentive", "line_total_billed"}

\* C1: once the calculator has written totals, each line total equals the base
\* charge plus that component of every surcharge triple on the record, over every
\* surcharge type of the catalog (unset counts 0).
C1_TotalsSumEveryCatalogSurcharge ==
    (calc_runs >= 1 /\ totals_written) =>
        \A i \in 1..3 :
            Get(shipment, SubKey("line_total", Components[i]))
                = Some(ExpectedTotal(shipment, Components[i]))

\* C7: a second run of the calculator leaves the record as the first run left it.
C7_TotalsIdempotent ==
    [][(calc_runs >= 1 /\ calc_runs' = calc_runs + 1) => shipment' = shipment]_vars

C7_Witness ==
    /\ calc_runs >= 2
    /\ totals_written
    /\ StoredSurcharges(shipment) # {}
    /\ TruthyNum(Get(shipment, "line_total_published"))

\* every contributing value (base charge, component of any surcharge) is unset or zero
AllContributingZero(d) ==
    /\ \A i \in 1..3 : ~TruthyNum(Get(d, BaseKey(Components[i])))
    /\ \A s \in CatalogSurcharges : \A i \in 1..3 :
          ~TruthyNum(Get(d, SubKey(s, Components[i])))

\* C9: on a record whose contributing values are all unset or zero a run of the
\* calculator writes nothing: the four line-total fields are exactly as before.
C9_NoTotalsOnEmptyRecord ==
    [][(calc_runs' = calc_runs + 1 /\ AllContributingZero(shipment)) =>
          /\ ~totals_written'
          /\ \A k \in LineTotalKeys :
                /\ (k \in DOMAIN shipment') = (k \in DOMAIN shipment)
                /\ Get(shipment', k) = Get(shipment, k)]_vars

C9_Witness ==
    /\ calc_runs >= 1
    /\ AllContributingZero(shipment)
    /\ Get(shipment, "published_charge") = Some(0)
    /\ StoredSurcharges(shipment) # {}
    /\ Get(shipment, "line_total_published") = Some(500)

\* the record of the worked example: base 10.00 / -2.00 / 8.00, fuel 1.00 / 0.00 / 1.00
IsExampleRecord(d) ==
    /\ Get(d, "published_charge") = Some(1000)
    /\ Get(d, "incentive_credit") = Some(-200)
    /\ Get(d, "billed_charge") = Some(800)
    /\ Get(d, "fuel_surcharge_published") = Some(100)
    /\ Get(d, "fuel_surcharge_incentive") = Some(0)
    /\ Get(d, "fuel_surcharge_billed") = Some(100)
    /\ StoredSurcharges(d) = {"fuel_surcharge"}

\* C10: on the example record the calculator produces 11.00 / -2.00 / 9.00.
C10_WorkedExample ==
    (calc_runs >= 1 /\ IsExampleRecord(shipment)) =>
        /\ Get(shipment, "line_total_published") = Some(1100)
        /\ Get(shipment, "line_total_incentive") = Some(-200)
        /\ Get(shipment, "line_total_billed") = Some(900)

C10_Witness == calc_runs >= 1 /\ IsExampleRecord(shipment)

----------------------------------------------------------------------------
(* Record Merger: merge_direct_fields_with_matrix *)

\* Python truthiness of an optional string: None and '' are falsy
TruthyStr(v) == v # None /\ v[1] # ""

IdentityFields == <<"sender_name", "sender_address", "receiver_name", "receiver_address">>

\* mutation: an entry is stored only while its tracking number has none
RECURSIVE direct_lookup_first_wins(_, _)
direct_lookup_first_wins(data, n) ==
    IF n = 0 THEN EmptyDict
    ELSE LET lookup == direct_lookup_first_wins(data, n - 1)
             tracking == Get(data[n], "tracking_number")
         IN  IF TruthyStr(tracking) /\ tracking[1] \notin DOMAIN lookup
             THEN Put(lookup, tracking[1], data[n]) ELSE lookup

\* "direct_lookup = {}; for data in direct_data: if tracking: direct_lookup[tracking] = data"
\* (a later entry with the same tracking number replaces an earlier one)
RECURSIVE direct_lookup(_, _)
direct_lookup(data, n) ==
    IF n = 0 THEN EmptyDict
    ELSE LET lookup == direct_lookup(data, n - 1)
             tracking == Get(data[n], "tracking_number")
         IN  IF TruthyStr(tracking) THEN Put(lookup, tracking[1], data[n]) ELSE lookup

\* mutation: the resolver's value is copied even when it is empty
MergeField_unconditional(s, direct_fields, f) == Put(s, f, Get(direct_fields, f))

\* "if direct_fields.get(f): shipment[f] = direct_fields[f]"
MergeField(s, direct_fields, f) ==
    IF TruthyStr(Get(direct_fields, f)) THEN Put(s, f, direct_fields[f]) ELSE s

RECURSIVE MergeFields(_, _, _)
MergeFields(s, direct_fields, i) ==
    IF i > Len(IdentityFields) THEN s
    ELSE MergeFields(MergeField(s, direct_fields, IdentityFields[i]), direct_fields, i + 1)

\* mutation: the else branch sets the flag as the then branch does
MarkNotCorrected_true(s) == Put(s, "direct_extraction_applied", Some(TRUE))

\* "else: shipment['direct_extraction_applied'] = False"
MarkNotCorrected(s) == Put(s, "direct_extraction_applied", Some(FALSE))

\* mutation: the page number of the resolver's tuple is copied as well
MergeShipment_with_page(s, lookup) ==
    LET tracking == Get(s, "tracking_number")
    IN  IF TruthyStr(tracking) /\ tracking[1] \in DOMAIN lookup
        THEN Put(Put(MergeFields(s, lookup[tracking[1]], 1), "page_number",
                     Get(lookup[tracking[1]], "page_number")),
                 "direct_extraction_applied", Some(TRUE))
        ELSE MarkNotCorrected(s)

\* the body of "for shipment in matrix_shipments"
MergeShipment(s, lookup) ==
    LET tracking == Get(s, "tracking_number")
    IN  IF TruthyStr(tracking) /\ tracking[1] \in DOMAIN lookup
        THEN Put(MergeFields(s, lookup[tracking[1]], 1), "direct_extraction_applied", Some(TRUE))
        ELSE MarkNotCorrected(s)

merge_direct_fields_with_matrix(shipments, data) ==
    LET lookup == direct_lookup(data, Len(data))
    IN  [i \in 1..Len(shipments) |-> MergeShipment(shipments[i], lookup)]

MaxRecords == 2         \* records handed to the merger
MaxDirect == 2          \* tuples in the resolver output

TrackingNumbers == {"1Z999AA10123456784", "1Z999AA10123456785"}

\* the identity fields a stage left non-empty
IdentityProfiles ==
    { {}, {"sender_name", "sender_address", "receiver_name", "receiver_address"},
      {"sender_name", "receiver_address"}, {"sender_address", "receiver_name"} }

\* a record of the matrix pass: tracking number, identity fields found by the
\* catalog pass (None where it found nothing), and fields the merger never
\* names (a charge, and the page number process_invoice_with_progress set)
MatrixRecord(tracking, profile) ==
    [k \in {"tracking_number", "published_charge", "page_number"} \cup
           {IdentityFields[i] : i \in 1..4} |->
        CASE k = "tracking_number" -> Some(tracking)
          [] k = "published_charge" -> Some(1000)
          [] k = "page_number" -> Some(2)
          [] OTHER -> IF k \in profile THEN Some("catalog " \o k) ELSE None]

\* a tuple of the resolver (_extract_five_fields: '' where it found nothing)
DirectTuple(tracking, profile) ==
    [k \in {"tracking_number", "page_number"} \cup {IdentityFields[i] : i \in 1..4} |->
        CASE k = "tracking_number" -> Some(tracking)
          [] k = "page_number" -> Some(1)
          [] OTHER -> IF k \in profile THEN Some("direct " \o k) ELSE Some("")]

\* a tuple the resolver found for the same tracking number on a later page,
\* with other names and addresses
LaterTuple(tracking) ==
    [k \in {"tracking_number", "page_number"} \cup {IdentityFields[i] : i \in 1..4} |->
        CASE k = "tracking_number" -> Some(tracking)
          [] k = "page_number" -> Some(3)
          [] OTHER -> Some("later " \o k)]

MatrixRecords == {MatrixRecord(t, p) : t \in TrackingNumbers,
                                        p \in IdentityProfiles}
DirectTuples == {DirectTuple(t, p) : t \in TrackingNumbers, p \in IdentityProfiles}
                    \cup {LaterTuple(t) : t \in TrackingNumbers}

SeqsUpTo(S, n) == UNION {[1..m -> S] : m \in 0..n}

TotalsIdle ==
    /\ shipment = EmptyDict
    /\ calc_runs = 0
    /\ totals_written = FALSE

InitMerge ==
    /\ matrix_shipments \in SeqsUpTo(MatrixRecords, MaxRecords)
    /\ direct_data \in SeqsUpTo(DirectTuples, MaxDirect)
    /\ merge_pc = "input"
    /\ before_merge = matrix_shipments
    /\ TotalsIdle
    /\ ParseIdle
    /\ DocumentIdle

Merge ==
    /\ merge_pc = "input"
    /\ matrix_shipments' = merge_direct_fields_with_matrix(matrix_shipments, direct_data)
    /\ merge_pc' = "merged"
    /\ UNCHANGED <<direct_data, before_merge, totals_vars, parse_vars, document_vars>>

NextMerge == Merge

SpecMerge == InitMerge /\ [][NextMerge]_vars

----------------------------------------------------------------------------
(* Claims about the Record Merger *)

\* the tuples of the resolver output that carry the given tracking number
EntriesFor(tracking) ==
    {j \in 1..Len(direct_data) : Get(direct_data[j], "tracking_number") = tracking}

SameField(a, b, k) == (k \in DOMAIN a) = (k \in DOMAIN b) /\ Get(a, k) = Get(b, k)

\* C2: a record whose tracking number has no entry in the resolver output keeps
\* its four identity fields and is marked not corrected.
C2_NotFoundUntouched ==
    merge_pc = "merged" =>
        \A i \in 1..Len(matrix_shipments) :
            EntriesFor(Get(before_merge[i], "tracking_number")) = {} =>
                /\ \A f \in 1..4 :
                      SameField(matrix_shipments[i], before_merge[i], IdentityFields[f])
                /\ Get(matrix_shipments[i], "direct_extraction_applied") = Some(FALSE)

C2_Witness ==
    /\ merge_pc = "merged"
    /\ direct_data # <<>>
    /\ \E i \in 1..Len(matrix_shipments) :
          /\ EntriesFor(Get(before_merge[i], "tracking_number")) = {}
          /\ Get(matrix_shipments[i], "sender_name") # None

\* C3: a record whose tracking number has an entry in the resolver output takes,
\* field by field, the resolver's value where it is non-empty and keeps its own
\* value elsewhere, and is marked corrected.
C3_FoundOverwritesNonEmpty ==
    merge_pc = "merged" =>
        \A i \in 1..Len(matrix_shipments) :
            EntriesFor(Get(before_merge[i], "tracking_number")) # {} =>
                /\ \E j \in EntriesFor(Get(before_merge[i], "tracking_number")) :
                      \A f \in 1..4 :
                          LET k == IdentityFields[f]
                          IN  IF Get(direct_data[j], k) \notin {None, Some("")}
                              THEN Get(matrix_shipments[i], k) = Get(direct_data[j], k)
                              ELSE SameField(matrix_shipments[i], before_merge[i], k)
                /\ Get(matrix_shipments[i], "direct_extraction_applied") = Some(TRUE)

C3_Witness ==
    /\ merge_pc = "merged"
    /\ \E i \in 1..Len(matrix_shipments) :
          /\ EntriesFor(Get(before_merge[i], "tracking_number")) # {}
          /\ Get(before_merge[i], "sender_name") = Some("catalog sender_name")
          /\ Get(matrix_shipments[i], "sender_name") = Some("direct sender_name")
          /\ Get(before_merge[i], "sender_address") = Some("catalog sender_address")
          /\ Get(matrix_shipments[i], "sender_address") = Some("catalog sender_address")


\* the keys the merger may write
MergerWrites == {IdentityFields[i] : i \in 1..4} \cup {"direct_extraction_applied"}

\* C16: the merge changes nothing but the four identity fields and the
\* corrected flag: every other field of every record has the value it had
\* before, and the returned list has the same records in the same order.
C16_MergeTouchesOnlyIdentityAndFlag ==
    merge_pc = "merged" =>
        /\ Len(matrix_shipments) = Len(before_merge)
        /\ \A i \in 1..Len(matrix_shipments) :
              /\ DOMAIN matrix_shipments[i] \ MergerWrites = DOMAIN before_merge[i] \ MergerWrites
              /\ \A k \in DOMAIN before_merge[i] \ MergerWrites :
                    matrix_shipments[i][k] = before_merge[i][k]

\* two records merged in one call, the first with identity fields replaced
\* from a resolver tuple that carries another page number than the record
C16_Witness ==
    /\ merge_pc = "merged"
    /\ Len(matrix_shipments) = 2
    /\ \E j \in 1..Len(direct_data) :
          /\ Get(direct_data[j], "tracking_number") = Get(before_merge[1], "tracking_number")
          /\ Get(direct_data[j], "page_number") # Get(before_merge[1], "page_number")
    /\ \E f \in 1..4 : matrix_shipments[1][IdentityFields[f]] # before_merge[1][IdentityFields[f]]
    /\ Get(matrix_shipments[1], "direct_extraction_applied") = Some(TRUE)

\* the last tuple of the resolver output that carries the tracking number
LastEntryFor(tracking) ==
    CHOOSE j \in EntriesFor(tracking) : \A n \in EntriesFor(tracking) : n <= j

\* C30: when several tuples of the resolver output carry the same tracking
\* number, every record with that number takes the non-empty fields of the
\* last of them and nothing of the earlier ones (it keeps its own value where
\* the last tuple is empty), so records that share the number receive the
\* same resolver values.
C30_LastTupleApplied ==
    merge_pc = "merged" =>
        \A i \in 1..Len(matrix_shipments) :
            LET tracking == Get(before_merge[i], "tracking_number")
            IN  EntriesFor(tracking) # {} =>
                    /\ \A f \in 1..4 :
                          LET k == IdentityFields[f]
                              last == direct_data[LastEntryFor(tracking)]
                          IN  IF TruthyStr(Get(last, k))
                              THEN Get(matrix_shipments[i], k) = Get(last, k)
                              ELSE SameField(matrix_shipments[i], before_merge[i], k)
                    /\ \A n \in 1..Len(matrix_shipments) :
                          Get(before_merge[n], "tracking_number") = tracking =>
                              \A f \in 1..4 :
                                  TruthyStr(Get(direct_data[LastEntryFor(tracking)],
                                                IdentityFields[f]))
                                      => Get(matrix_shipments[n], IdentityFields[f])
                                             = Get(matrix_shipments[i], IdentityFields[f])

\* two records with one tracking number and two tuples for it with different
\* names: both records hold the name of the second tuple
C30_Witness ==
    /\ merge_pc = "merged"
    /\ Len(matrix_shipments) = 2 /\ Len(direct_data) = 2
    /\ Get(before_merge[1], "tracking_number") = Get(before_merge[2], "tracking_number")
    /\ EntriesFor(Get(before_merge[1], "tracking_number")) = {1, 2}
    /\ Get(direct_data[1], "sender_name") = Some("direct sender_name")
    /\ Get(direct_data[2], "sender_name") = Some("later sender_name")
    /\ Get(matrix_shipments[1], "sender_name") = Some("later sender_name")
    /\ Get(matrix_shipments[2], "sender_name") = Some("later sender_name")

----------------------------------------------------------------------------
(* Page text.                                                               *)
(* A page is the list of words the tokenizer returns; full_text joins them  *)
(* with single spaces.  The model keeps the words as tokens and applies     *)
(* the regular expressions of the code to whole tokens: a token is a record *)
(* [k, s, n] with k the kind of word, s its text and n its numeric value.   *)
(*   date      MM/DD, n = 100 * MM + DD                                     *)
(*   trk       an 18-character identifier, s its text                       *)
(*   word      any other word, s its text                                   *)
(*   int       an unsigned integer n                                        *)
(*   dec1      a number with one decimal, n in tenths (5.0 is 50)           *)
(*   amt       an amount with two decimals, n in cents, possibly negative   *)
(*   longdate  'Month D, YYYY' taken as one word, n = YYYY                  *)

Tok(k, s, n) == [k |-> k, s |-> s, n |-> n]
Word(s) == Tok("word", s, 0)
DateTok(mmdd) == Tok("date", "", mmdd)
Trk(s) == Tok("trk", s, 0)
IntTok(n) == Tok("int", "", n)
Dec1(n) == Tok("dec1", "", n)
Amt(n) == Tok("amt", "", n)

\* identifiers of the vocabulary that match 1Z[A-Z0-9]{16} as written
ValidIdentifiers == {"1Z999AA10123456784", "1Z999AA10123456785"}
\* identifiers that match it only when case is ignored
LowercaseIdentifiers == {"1z999aa10123456784"}
Identifiers == ValidIdentifiers \cup LowercaseIdentifiers

\* str.lower() on the words of the vocabulary
Lower(s) ==
    CASE s = "Ground" -> "ground"
      [] s = "Residential" -> "residential"
      [] s = "Commercial" -> "commercial"
      [] s = "Fuel" -> "fuel"
      [] s = "Surcharge" -> "surcharge"
      [] s = "Holiday" -> "holiday"
      [] s = "Total" -> "total"
      [] s = "Page" -> "page"
      [] s = "Invoice" -> "invoice"
      [] s = "Date" -> "date"
      [] s = "Published" -> "published"
      [] s = "Delivery" -> "delivery"
      [] s = "Service" -> "service"
      [] s = "Of" -> "of"
      [] s = "Consolidated" -> "consolidated"
      [] s = "Billing" -> "billing"
      [] s = "Remittance" -> "remittance"
      [] s = "Summary" -> "summary"
      [] s = "Sender:" -> "sender:"
      [] s = "Receiver:" -> "receiver:"
      [] s = "RESIDENTIAL" -> "residential"
      [] s = "SURCHARGE" -> "surcharge"
      [] s = "ACME" -> "acme"
      [] s = "SUPPLY" -> "supply"
      [] s = "JOHN" -> "john"
      [] s = "SMITH" -> "smith"
      [] s = "Acme" -> "acme"
      [] s = "Supply" -> "supply"
      [] s = "John" -> "john"
      [] s = "Smith" -> "smith"
      [] s = "Oak" -> "oak"
      [] s = "Ave" -> "ave"
      [] s = "Atlanta" -> "atlanta"
      [] s = "GA" -> "ga"
      [] OTHER -> s

RECURSIVE Digits(_)
Digits(n) == IF n < 10 THEN 1 ELSE 1 + Digits(n \div 10)

Abs(n) == IF n < 0 THEN 0 - n ELSE n

\* len(word)
TokLen(t) ==
    CASE t.k = "date" -> 5
      [] t.k = "int"  -> Digits(t.n)
      [] t.k = "dec1" -> Digits(t.n \div 10) + 2
      [] t.k = "amt"  -> (IF t.n < 0 THEN 1 ELSE 0) + Digits(Abs(t.n) \div 100) + 3
      [] OTHER -> Len(t.s)

\* two digits with a leading zero
Pad2(n) == IF n < 10 THEN "0" \o ToString(n) ELSE ToString(n)

\* str(word)
TokText(t) ==
    CASE t.k = "int"  -> ToString(t.n)
      [] t.k = "date" -> Pad2(t.n \div 100) \o "/" \o Pad2(t.n % 100)
      [] t.k = "dec1" -> ToString(t.n \div 10) \o "." \o ToString(t.n % 10)
      [] t.k = "amt"  -> (IF t.n < 0 THEN "-" ELSE "") \o ToString(Abs(t.n) \div 100)
                         \o "." \o Pad2(Abs(t.n) % 100)
      [] OTHER -> t.s

\* len(' '.join(words))
RECURSIVE TextLen(_)
TextLen(toks) ==
    IF toks = <<>> THEN 0
    ELSE IF Len(toks) = 1 THEN TokLen(toks[1])
    ELSE TokLen(toks[1]) + 1 + TextLen(Tail(toks))

\* offset in ' '.join(words) of the first character of word i
\* (for i = Len + 1: the offset one past the separator that would follow)
CharPos(toks, i) == IF i = 1 THEN 0 ELSE TextLen(SubSeq(toks, 1, i - 1)) + 1

----------------------------------------------------------------------------
(* Regular expressions over tokens.                                         *)
(* A pattern is a sequence of elements [c, lit, q]: c names a class of      *)
(* tokens, lit is the set of lower-case words of a literal, q is "1" (one   *)
(* token), "+" (one or more, lazy) or "*" (zero or more, lazy).  Elements   *)
(* are separated by white space (\s+ in the code).                          *)

One(c)   == [c |-> c, lit |-> {}, q |-> "1"]
Lit(ws)  == [c |-> "lit", lit |-> ws, q |-> "1"]
LitCS(ws) == [c |-> "lit_cs", lit |-> ws, q |-> "1"]
Lazy1(c) == [c |-> c, lit |-> {}, q |-> "+"]
Lazy0(c) == [c |-> c, lit |-> {}, q |-> "*"]

ServiceStartWords == {"ground", "air", "express"}

InClass(el, t) ==
    CASE el.c = "lit"     -> t.k = "word" /\ Lower(t.s) \in el.lit         \* literal, IGNORECASE
      [] el.c = "lit_cs"  -> t.k = "word" /\ t.s \in el.lit                \* literal, as written
      [] el.c = "int_1"   -> t.k = "int" /\ t.n = 1                        \* the digit 1 as a word
      [] el.c = "any"     -> TRUE                                          \* .
      [] el.c = "date"    -> t.k = "date"                                  \* \d{2}/\d{2}
      [] el.c = "trk"     -> t.k = "trk" /\ t.s \in ValidIdentifiers       \* 1Z[A-Z0-9]{16}
      [] el.c = "trk_i"   -> t.k = "trk" /\ t.s \in Identifiers            \* the same, IGNORECASE
      [] el.c = "alpha"   -> t.k = "word"                                  \* [A-Za-z\s]+
      [] el.c = "nondigit" -> t.k = "word"                                 \* [^0-9]+
      [] el.c = "svc"     -> t.k = "word" /\ Lower(t.s) \in ServiceStartWords
      [] el.c = "d5"      -> t.k = "int" /\ t.n >= 10000 /\ t.n <= 99999   \* \d{5}
      [] el.c = "d1_4"    -> t.k = "int" /\ t.n <= 9999                    \* \d{1,4}
      [] el.c = "int"     -> t.k = "int"                                   \* \d+
      [] el.c = "num"     -> t.k = "int" \/ t.k = "dec1" \/ (t.k = "amt" /\ t.n >= 0)  \* \d+(?:\.\d+)?
      [] el.c = "amt"     -> t.k = "amt" /\ t.n >= 0                       \* [\d,]+\.\d{2}
      [] el.c = "amt_s"   -> t.k = "amt"                                   \* -?[\d,]+\.\d{2}
      [] el.c = "amt_neg" -> t.k = "amt" /\ t.n < 0                        \* -[\d,]+\.\d{2}
      [] el.c = "amt_tail" -> t.k = "amt"        \* [\d,]+\.\d{2} not anchored on the left: the digits after a sign
      [] el.c = "longdate" -> t.k = "longdate"
      [] OTHER -> FALSE

Fail == <<>>
Prepend(j, r) == IF r = Fail THEN Fail ELSE << <<j>> \o r[1] >>

\* MatchAt(pat, e, toks, j): elements e.. of pat matched from token j on.
\* A match is << starts >>: starts[e] is the first token of element e and the
\* last entry is the token after the match.
RECURSIVE MatchAt(_, _, _, _)
RECURSIVE MatchLazy(_, _, _, _, _)
MatchAt(pat, e, toks, j) ==
    IF e > Len(pat) THEN << <<j>> >>
    ELSE IF pat[e].q = "1"
         THEN IF j <= Len(toks) /\ InClass(pat[e], toks[j])
              THEN Prepend(j, MatchAt(pat, e + 1, toks, j + 1))
              ELSE Fail
         ELSE MatchLazy(pat, e, toks, j, IF pat[e].q = "+" THEN j + 1 ELSE j)

\* element e takes the tokens j .. k-1, as few as the rest of the pattern allows
MatchLazy(pat, e, toks, j, k) ==
    IF k > Len(toks) + 1 \/ ~(\A x \in j..(k - 1) : InClass(pat[e], toks[x]))
    THEN Fail
    ELSE LET r == MatchAt(pat, e + 1, toks, k)
         IN  IF r # Fail THEN Prepend(j, r) ELSE MatchLazy(pat, e, toks, j, k + 1)

\* the leftmost match that starts at token i or later, Fail if there is none
RECURSIVE SearchFrom(_, _, _)
SearchFrom(pat, toks, i) ==
    IF i > Len(toks) THEN Fail
    ELSE LET r == MatchAt(pat, 1, toks, i)
         IN  IF r # Fail THEN r ELSE SearchFrom(pat, toks, i + 1)

\* re.search(pattern, text)
Search(pat, toks) == SearchFrom(pat, toks, 1)

\* re.finditer(pattern, text): the non-overlapping matches, left to right
RECURSIVE FindAll(_, _, _)
FindAll(pat, toks, from) ==
    LET r == SearchFrom(pat, toks, from)
    IN  IF r = Fail THEN <<>> ELSE <<r[1]>> \o FindAll(pat, toks, r[1][Len(r[1])])

MatchStart(m) == m[1]
MatchEnd(m) == m[Len(m)]

----------------------------------------------------------------------------
(* Patterns with alternatives.                                              *)
(* A compiled pattern is [alts, cap]: alts are the branches of the regular  *)
(* expression (an optional part gives one branch with it and one without),  *)
(* cap says where group 1 lies: it is the token cap places before the end   *)
(* of the match (a look-ahead counts as part of the match here).            *)

Pat(alts, cap) == [alts |-> alts, cap |-> cap]

\* [branch, match] of the first branch that matches at token i, Fail if none does
RECURSIVE BranchAt(_, _, _, _)
BranchAt(alts, toks, i, b) ==
    IF b > Len(alts) THEN Fail
    ELSE LET r == MatchAt(alts[b], 1, toks, i)
         IN  IF r # Fail THEN <<b, r[1]>> ELSE BranchAt(alts, toks, i, b + 1)

\* pattern.search(text): the leftmost match over all branches
RECURSIVE SearchAltFrom(_, _, _)
SearchAltFrom(alts, toks, i) ==
    IF i > Len(toks) THEN Fail
    ELSE LET r == BranchAt(alts, toks, i, 1)
         IN  IF r # Fail THEN r ELSE SearchAltFrom(alts, toks, i + 1)

SearchAlt(alts, toks) == SearchAltFrom(alts, toks, 1)

\* "for pattern in patterns: match = search(...); if match: ... break":
\* <<index of the first pattern that matches, branch, match>>, Fail if none does
RECURSIVE FirstMatch(_, _, _)
FirstMatch(patterns, toks, i) ==
    IF i > Len(patterns) THEN Fail
    ELSE LET r == SearchAlt(patterns[i].alts, toks)
         IN  IF r # Fail THEN <<i, r[1], r[2]>> ELSE FirstMatch(patterns, toks, i + 1)

\* the token of group 1, and the class of the element that matched it
CapToken(patterns, toks, fm) == toks[MatchEnd(fm[3]) - patterns[fm[1]].cap]
CapClass(patterns, fm) ==
    LET branch == patterns[fm[1]].alts[fm[2]]
    IN  branch[Len(branch) - patterns[fm[1]].cap + 1].c

\* a label followed by '([\d,]+\.\d{2})\s*(-?[\d,]+\.\d{2})\s+([\d,]+\.\d{2})'
TripleTail == <<One("amt"), One("amt_s"), One("amt")>>
Label(ws) == [i \in 1..Len(ws) |-> Lit(ws[i])] \o TripleTail
LabelPat(branches) == Pat([i \in 1..Len(branches) |-> Label(branches[i])], 3)

----------------------------------------------------------------------------
(* InvoiceParser.is_invoice_page and _extract_invoice_level_data *)

indicators ==
    << <<Lit({"delivery"}), Lit({"service"}), Lit({"invoice"})>>,
       <<Lit({"tracking"}), Lit({"number"})>>,
       <<Lit({"account"}), Lit({"number"})>>,
       <<One("trk_i")>>,
       <<Lit({"published"}), Lit({"charge"})>>,
       <<Lit({"incentive"}), Lit({"credit"})>>,
       <<Lit({"billed"}), Lit({"charge"})>> >>

is_invoice_page(toks) == \E i \in 1..Len(indicators) : Search(indicators[i], toks) # Fail

\* date_patterns; the third one (MM/DD/YYYY) has no token in the vocabulary
date_patterns ==
    << Pat(<< <<Lit({"invoice"}), Lit({"date"}), One("longdate")>> >>, 1),
       Pat(<< <<Lit({"invoice"}), Lit({"date:"}), One("longdate")>>,
              <<Lit({"invoice"}), Lit({"date"}), Lit({":"}), One("longdate")>> >>, 1),
       Pat(<< <<Lit({"invoice"}), Lit({"date"}), One("date_yyyy")>> >>, 1),
       Pat(<< <<One("longdate")>> >>, 1) >>

\* Only the invoice date has words in the vocabulary; the invoice number,
\* account number, control id and sender patterns find nothing on these pages.
extract_invoice_level_data(toks) ==
    LET fm == FirstMatch(date_patterns, toks, 1)
    IN  IF fm = Fail THEN EmptyDict
        ELSE LET t == CapToken(date_patterns, toks, fm)
             IN  Put(Put(EmptyDict, "invoice_date", Some(t.s)), "invoice_year", Some(t.n))

----------------------------------------------------------------------------
(* Segmenter: InvoiceParser._split_into_enhanced_shipment_matrices *)

MinMatrixSize == 50       \* "if len(matrix_text) < 50: continue"
MarkerMinOffset == 50     \* "if potential_end > start_pos + 50"

\* '(\d{2}/\d{2}(?:/\d{2,4})?)\s+(1Z[A-Z0-9]{16})', case-sensitive
tracking_pattern == <<One("date"), One("trk")>>

\* the alternative patterns, compiled with IGNORECASE
alt_patterns ==
    << <<One("trk_i")>>,
       <<One("date"), Lazy0("any"), One("svc")>>,
       <<Lit({"tracking"}), Lit({"number", "number:"}), One("trk_i")>> >>

RECURSIVE AltBoundaries(_, _)
AltBoundaries(toks, i) ==
    IF i > Len(alt_patterns) THEN <<>>
    ELSE LET b == FindAll(alt_patterns[i], toks, 1)
         IN  IF b # <<>> THEN b ELSE AltBoundaries(toks, i + 1)

Boundaries(toks) ==
    LET primary == FindAll(tracking_pattern, toks, 1)
    IN  IF primary # <<>> THEN primary ELSE AltBoundaries(toks, 1)

\* searched with IGNORECASE, in this order
end_markers ==
    << <<Lit({"total"}), Lit({"for"}), Lit({"internet-id", "internetid"})>>,
       <<Lit({"total"}), Lit({"shipping"}), Lit({"api"})>>,
       <<Lit({"message"}), Lit({"codes:"})>>,
       <<Lit({"page"}), One("int"), Lit({"of"}), One("int")>>,
       <<Lit({"==="}), Lit({"invoice", "end"})>>,
       <<Lit({"consolidated"}), Lit({"billing", "remittance"})>>,
       <<Lit({"invoice"}), Lit({"messaging"})>>,
       <<Lit({"code"}), Lit({"message"})>>,
       <<One("date"), One("trk_i")>> >>

\* The end of the last block, as a token index (Len + 1: the end of the text):
\* the first marker IN LIST ORDER whose first match lies more than
\* MarkerMinOffset characters after the start of the block.
RECURSIVE EndOfLast(_, _, _)
EndOfLast(toks, b, i) ==
    IF i > Len(end_markers) THEN Len(toks) + 1
    ELSE LET m == Search(end_markers[i], SubSeq(toks, b, Len(toks)))
             at == b + MatchStart(m[1]) - 1
         IN  IF m # Fail /\ CharPos(toks, at) > CharPos(toks, b) + MarkerMinOffset
             THEN at
             ELSE EndOfLast(toks, b, i + 1)

\* mutation: a block runs to the end of the next boundary match
BlockEnd_after_next(toks, bs, i) ==
    IF i < Len(bs) THEN MatchEnd(bs[i + 1]) ELSE EndOfLast(toks, MatchStart(bs[i]), 1)

\* the token at which block i ends: the start of the next boundary, or the end rule
BlockEnd(toks, bs, i) ==
    IF i < Len(bs) THEN MatchStart(bs[i + 1]) ELSE EndOfLast(toks, MatchStart(bs[i]), 1)

FirstOf(pat, toks) ==
    LET m == Search(pat, toks) IN IF m = Fail THEN None ELSE Some(toks[MatchStart(m[1])])

matrix_info(toks, b, e) ==
    LET matrix_text == SubSeq(toks, b, e - 1)
        trk == FirstOf(<<One("trk")>>, matrix_text)
        dt  == FirstOf(<<One("date")>>, matrix_text)
    IN  [ matrix_text     |-> matrix_text,
          shipment_date   |-> IF dt = None THEN None ELSE Some(dt[1].n),
          tracking_number |-> IF trk = None THEN None ELSE Some(trk[1].s),
          start_pos       |-> CharPos(toks, b),
          end_pos         |-> IF e > Len(toks) THEN TextLen(toks) ELSE CharPos(toks, e),
          matrix_length   |-> TextLen(matrix_text) ]

RECURSIVE SplitFrom(_, _, _)
SplitFrom(toks, bs, i) ==
    IF i > Len(bs) THEN <<>>
    ELSE LET b == MatchStart(bs[i])
             e == BlockEnd(toks, bs, i)
         IN  (IF TextLen(SubSeq(toks, b, e - 1)) < MinMatrixSize
              THEN <<>>
              ELSE << matrix_info(toks, b, e) >>)
             \o SplitFrom(toks, bs, i + 1)

split_into_enhanced_shipment_matrices(toks) == SplitFrom(toks, Boundaries(toks), 1)

----------------------------------------------------------------------------
(* Value conversions of UPSMatrixProcessor *)

\* a date written with its year: k is "date_yy" ('MM/DD/YY') or "date_yyyy"
\* ('MM/DD/YYYY'), s the text as written, n = year * 10000 + month * 100 + day
DateWithYear(k, s, year, mmdd) == Tok(k, s, year * 10000 + mmdd)

\* re.match(r'\d{1,2}/\d{1,2}', value): the pattern has no anchor on the right, so
\* it also matches the first characters of a value that goes on with '/YY'
MatchesMonthDay(t) == t.k \in {"date", "date_yy", "date_yyyy"}

\* re.match(r'\d{1,2}/\d{1,2}/\d{2,4}', value)
MatchesMonthDayYear(t) == t.k \in {"date_yy", "date_yyyy"}

\* len(value.split('/'))
SlashParts(t) ==
    CASE t.k = "date" -> 2
      [] t.k \in {"date_yy", "date_yyyy"} -> 3
      [] OTHER -> 1

\* f"{year}-{int(month):02d}-{int(day):02d}", kept as the record of its three numbers
IsoDate(year, mmdd) == [year |-> year, month |-> mmdd \div 100, day |-> mmdd % 100]

\* _parse_date(value, invoice_year).  "month, day = value.split('/')" raises
\* ValueError unless the value has exactly two parts, and the except clause
\* returns value.strip().
parse_date(t, invoice_year, now_year) ==
    IF MatchesMonthDay(t)
    THEN IF SlashParts(t) = 2
         THEN Some(IsoDate(IF TruthyNum(invoice_year) THEN invoice_year[1] ELSE now_year, t.n))
         ELSE Some(TokText(t))
    ELSE IF MatchesMonthDayYear(t)
         THEN Some(IsoDate(IF t.k = "date_yy" THEN 2000 + t.n \div 10000 ELSE t.n \div 10000,
                           t.n % 10000))
         ELSE Some(TokText(t))

\* what a Python conversion gives: a value, or the exception it raises
Value(v) == [value |-> v]
ValueError == [raised |-> "ValueError"]
Raised(r) == "raised" \in DOMAIN r

\* float(cleaned), in hundredths
python_float(t) ==
    CASE t.k = "int"  -> Value(t.n * 100)
      [] t.k = "dec1" -> Value(t.n * 10)
      [] t.k = "amt"  -> Value(t.n)
      [] OTHER -> ValueError

\* int(cleaned)
python_int(t) == IF t.k = "int" THEN Value(t.n) ELSE ValueError

\* "except (ValueError, TypeError): return 0"
parse_currency_or_zero(t, class) ==
    LET r == python_float(t)
    IN  IF Raised(r) THEN Some(0)
        ELSE Some(IF class = "amt_tail" THEN Abs(r.value) ELSE r.value)

\* _parse_currency: cents; group 1 of a pattern not anchored on the left leaves the
\* sign out.  "except (ValueError, TypeError): return None"
parse_currency(t, class) ==
    LET r == python_float(t)
    IN  IF Raised(r) THEN None
        ELSE Some(IF class = "amt_tail" THEN Abs(r.value) ELSE r.value)

\* _parse_integer
parse_integer(t) ==
    LET r == python_int(t) IN IF Raised(r) THEN None ELSE Some(r.value)

\* _parse_float, in hundredths
parse_float(t) ==
    LET r == python_float(t) IN IF Raised(r) THEN None ELSE Some(r.value)

RECURSIVE JoinWords(_)
JoinWords(toks) ==
    IF toks = <<>> THEN ""
    ELSE IF Len(toks) = 1 THEN toks[1].s
    ELSE toks[1].s \o " " \o JoinWords(Tail(toks))

IsWord(t) == t.k = "word"

\* _clean_service_name: the words of the service joined by single spaces
\* (the pages of the model carry no number inside a service name)
clean_service_name(toks) == Some(JoinWords(SelectSeq(toks, IsWord)))

----------------------------------------------------------------------------
(* Step 1: UPSMatrixProcessor._extract_main_shipment_line_enhanced          *)
(* The four patterns, searched with IGNORECASE in this order.  svc gives    *)
(* the elements of the service group, the other fields the element of      *)
(* their group (zone 0: the pattern has no zone group).                     *)

main_line_patterns ==
    << [ pat |-> << One("date"), One("trk_i"), Lazy1("alpha"), One("d5"), One("d1_4"),
                    One("num"), One("amt"), One("amt_s"), One("amt") >>,
         svc |-> <<3, 3>>, zip |-> 4, zone |-> 5, weight |-> 6, pub |-> 7 ],
       [ pat |-> << One("date"), One("trk_i"), One("svc"), Lazy0("any"), Lit({"residential"}),
                    One("d5"), One("d1_4"), One("num"), One("amt"), One("amt_s"), One("amt") >>,
         svc |-> <<3, 5>>, zip |-> 6, zone |-> 7, weight |-> 8, pub |-> 9 ],
       [ pat |-> << One("date"), One("trk_i"), One("svc"), Lazy0("any"), One("d5"),
                    One("num"), One("amt"), One("amt_s"), One("amt") >>,
         svc |-> <<3, 4>>, zip |-> 5, zone |-> 0, weight |-> 6, pub |-> 7 ],
       [ pat |-> << One("date"), One("trk_i"), Lazy1("nondigit"), One("d5"), One("d1_4"),
                    One("int"), One("amt"), One("amt_neg"), One("amt") >>,
         svc |-> <<3, 3>>, zip |-> 4, zone |-> 5, weight |-> 6, pub |-> 7 ] >>

\* main_data of a match m of pattern p.  _parse_date is called without invoice_year.
MainData(p, toks, m, now_year) ==
    LET first(e) == toks[m[e]]
        dt == parse_date(first(1), None, now_year)
        d0 == [k \in {"shipment_date", "pickup_date"} |-> dt]
        d1 == Put(d0, "tracking_number", Some(first(2).s))
        d2 == Put(d1, "service_type",
                  clean_service_name(SubSeq(toks, m[p.svc[1]], m[p.svc[2] + 1] - 1)))
        d3 == Put(d2, "destination_zip", Some(first(p.zip).n))
        d4 == IF p.zone = 0 THEN d3 ELSE Put(d3, "zone", parse_integer(first(p.zone)))
        d5 == Put(d4, "weight", parse_float(first(p.weight)))
        d6 == Put(d5, "published_charge", parse_currency(first(p.pub), "amt"))
        d7 == Put(d6, "incentive_credit", parse_currency(first(p.pub + 1), "amt_s"))
    IN  Put(d7, "billed_charge", parse_currency(first(p.pub + 2), "amt"))

RECURSIVE MainLineFrom(_, _, _)
MainLineFrom(toks, i, now_year) ==
    IF i > Len(main_line_patterns) THEN EmptyDict
    ELSE LET m == Search(main_line_patterns[i].pat, toks)
         IN  IF m # Fail THEN MainData(main_line_patterns[i], toks, m[1], now_year)
             ELSE MainLineFrom(toks, i + 1, now_year)

extract_main_shipment_line_enhanced(toks, now_year) == MainLineFrom(toks, 1, now_year)

----------------------------------------------------------------------------
(* Step 2: UPSMatrixProcessor._extract_all_surcharges *)

SurchargeDef(n, patterns) == [name |-> n, patterns |-> patterns]

surcharge_patterns ==
    << SurchargeDef("residential_surcharge",
           << LabelPat(<< <<{"residential"}, {"surcharge"}>> >>),
              LabelPat(<< <<{"residential"}>> >>) >>),
       SurchargeDef("fuel_surcharge",
           << LabelPat(<< <<{"fuel"}, {"surcharge"}>> >>) >>),
       SurchargeDef("delivery_area_surcharge",
           << LabelPat(<< <<{"delivery"}, {"area"}, {"surcharge"}, {"-"}, {"extended", "remote"}>>,
                          <<{"delivery"}, {"area"}, {"surcharge"}>> >>),
              LabelPat(<< <<{"extended", "remote"}, {"area"}, {"surcharge"}>> >>),
              LabelPat(<< <<{"das"}, {"-"}, {"extended", "remote"}>> >>) >>),
       SurchargeDef("large_package_surcharge",
           << LabelPat(<< <<{"large"}, {"package"}, {"surcharge"}>> >>) >>),
       SurchargeDef("additional_handling",
           << LabelPat(<< <<{"additional"}, {"handling"}>> >>) >>),
       SurchargeDef("saturday_delivery",
           << LabelPat(<< <<{"saturday"}, {"delivery"}>> >>) >>),
       SurchargeDef("signature_required",
           << LabelPat(<< <<{"signature"}, {"required", "option"}>> >>) >>),
       SurchargeDef("adult_signature_required",
           << LabelPat(<< <<{"adult"}, {"signature"}, {"required"}>> >>) >>),
       SurchargeDef("address_correction",
           << LabelPat(<< <<{"address"}, {"correction"}, {"fee", "charge"}>>,
                          <<{"address"}, {"correction"}>> >>) >>),
       SurchargeDef("over_maximum_limits",
           << LabelPat(<< <<{"over"}, {"maximum"}, {"limits"}>> >>) >>),
       SurchargeDef("peak_surcharge",
           << LabelPat(<< <<{"peak"}, {"season"}, {"surcharge"}>>,
                          <<{"peak"}, {"surcharge"}>> >>) >>) >>

\* the three groups of a triple pattern: the last three tokens of the match
TripleOf(toks, m) ==
    LET e == MatchEnd(m) IN Triple(toks[e - 3].n, toks[e - 2].n, toks[e - 1].n)

RECURSIVE SurchargesFrom(_, _, _)
SurchargesFrom(toks, i, surcharge_data) ==
    IF i > Len(surcharge_patterns) THEN surcharge_data
    ELSE LET fm == FirstMatch(surcharge_patterns[i].patterns, toks, 1)
         IN  SurchargesFrom(toks, i + 1,
                 IF fm = Fail THEN surcharge_data
                 ELSE StoreTriple(surcharge_data, surcharge_patterns[i].name,
                                  TripleOf(toks, fm[3])))

extract_all_surcharges(toks) == SurchargesFrom(toks, 1, EmptyDict)

----------------------------------------------------------------------------
(* Step 5: the catalog pass.                                                *)
(* compiled_patterns of the catalog fields the model follows: the           *)
(* identifier, the dates, the base charges, the surcharges and the line     *)
(* total.  The other catalog fields keep an empty pattern list here, so     *)
(* they stay None unless the main line set them; no stage of the model      *)
(* reads them.                                                              *)

\* base_pattern of each entry of surcharge_types, in the order of that list
surcharge_type_labels ==
    << << <<{"large"}, {"package"}, {"surcharge"}>> >>,
       << <<{"additional"}, {"handling"}>> >>,
       << <<{"saturday"}, {"delivery"}>> >>,
       << <<{"saturday"}, {"pickup"}>> >>,
       << <<{"signature"}, {"required", "option"}>> >>,
       << <<{"adult"}, {"signature"}, {"required"}>> >>,
       << <<{"direct"}, {"signature"}, {"required"}>> >>,
       << <<{"address"}, {"correction"}, {"fee"}>>, <<{"address"}, {"correction"}>> >>,
       << <<{"over"}, {"maximum"}, {"limits"}>> >>,
       << <<{"peak"}, {"season"}, {"surcharge"}>>, <<{"peak"}, {"surcharge"}>> >>,
       << <<{"holiday"}, {"surcharge"}>> >>,
       << <<{"hazmat"}, {"fee", "surcharge"}>>,
          <<{"hazardous"}, {"material", "materials"}, {"fee", "surcharge"}>> >>,
       << <<{"dry"}, {"ice"}, {"fee", "surcharge"}>> >>,
       << <<{"declared"}, {"value"}, {"charge", "fee"}>> >>,
       << <<{"cod"}, {"fee", "surcharge"}>>,
          <<{"cash"}, {"on"}, {"delivery"}, {"fee", "surcharge"}>> >>,
       << <<{"carbon"}, {"neutral"}>> >>,
       << <<{"lift"}, {"gate"}, {"fee", "surcharge"}>> >>,
       << <<{"inside"}, {"pickup"}>> >>,
       << <<{"inside"}, {"delivery"}>> >>,
       << <<{"call"}, {"tag"}, {"fee", "surcharge"}>> >>,
       << <<{"quantum"}, {"view"}, {"notify", "manage"}>>, <<{"quantum"}, {"view"}>> >>,
       << <<{"ups"}, {"premium"}, {"care"}>> >>,
       << <<{"missing"}, {"pld"}, {"fee"}>> >> >>

IndexOf(seq, x) == CHOOSE i \in 1..Len(seq) : seq[i] = x

LabelledAmount(labels, class) == Pat(<< <<Lit(labels), One(class)>> >>, 1)

\* all patterns are compiled with IGNORECASE | MULTILINE
compiled_patterns(field_name) ==
    CASE field_name = "invoice_date" ->
            << Pat(<< <<Lit({"invoice"}), Lit({"date"}), One("longdate")>> >>, 1),
               Pat(<< <<Lit({"invoice"}), Lit({"date"}), One("date_yyyy")>> >>, 1),
               Pat(<< <<One("longdate")>> >>, 1) >>
      [] field_name = "tracking_number" ->
            << Pat(<< <<One("trk_i")>> >>, 1) >>
      [] field_name = "pickup_date" ->
            << Pat(<< <<One("date")>> >>, 1),
               Pat(<< <<Lit({"pickup"}), Lit({"date", "date:"}), One("date")>> >>, 1) >>
      [] field_name = "shipment_date" ->
            << Pat(<< <<One("date")>> >>, 1),
               Pat(<< <<Lit({"ship"}), Lit({"date", "date:"}), One("date")>> >>, 1) >>
      [] field_name = "published_charge" ->
            << Pat(<< <<One("amt_tail"), One("amt_s"), One("amt")>> >>, 3),
               LabelledAmount({"published", "published:"}, "amt"),
               LabelledAmount({"pub", "pub:"}, "amt") >>
      [] field_name = "incentive_credit" ->
            << Pat(<< <<One("amt_tail"), One("amt_neg"), One("amt")>> >>, 2),
               LabelledAmount({"incentive", "incentive:"}, "amt_s"),
               LabelledAmount({"inc", "inc:"}, "amt_s") >>
      [] field_name = "billed_charge" ->
            << Pat(<< <<One("amt_tail"), One("amt_s"), One("amt")>> >>, 1),
               LabelledAmount({"billed", "billed:"}, "amt"),
               LabelledAmount({"bill", "bill:"}, "amt") >>
      [] field_name = "residential_surcharge" ->
            << LabelPat(<< <<{"residential"}, {"surcharge"}>> >>),
               LabelPat(<< <<{"residential"}>> >>),
               LabelPat(<< <<{"res"}, {"surcharge"}>> >>) >>
      [] field_name = "fuel_surcharge" ->
            << LabelPat(<< <<{"fuel"}, {"surcharge"}>> >>) >>
      [] field_name = "delivery_area_surcharge" ->
            << LabelPat(<< <<{"delivery"}, {"area"}, {"surcharge"}, {"-"}, {"extended", "remote"}>>,
                           <<{"delivery"}, {"area"}, {"surcharge"}>> >>),
               LabelPat(<< <<{"extended", "remote"}, {"area"}, {"surcharge"}>> >>),
               LabelPat(<< <<{"das"}, {"-"}, {"extended", "remote"}>> >>) >>
      [] field_name = "line_total" ->
            << LabelPat(<< <<{"total"}>> >>),
               LabelPat(<< <<{"line"}, {"total"}>> >>) >>
      [] field_name \in {surcharge_types[i] : i \in 1..Len(surcharge_types)} ->
            << LabelPat(surcharge_type_labels[IndexOf(surcharge_types, field_name)]) >>
      [] OTHER -> <<>>

\* _extract_field_value on a match whose group 1 is the word t, for the data
\* types other than currency_triple; class is the class of the pattern element
\* that captured t
extract_group_value(d, field_def, t, class, now_year) ==
    CASE field_def.data_type = "currency" ->
            Put(d, field_def.field_name, parse_currency(t, class))
      [] field_def.data_type = "float" ->
            Put(d, field_def.field_name, parse_float(t))
      [] field_def.data_type = "integer" ->
            Put(d, field_def.field_name, parse_integer(t))
      [] field_def.data_type = "date" ->
            Put(d, field_def.field_name, parse_date(t, None, now_year))
      [] OTHER ->
            Put(d, field_def.field_name, Some(TokText(t)))

\* _extract_field_value
extract_field_value(d, field_def, patterns, toks, fm, now_year) ==
    IF field_def.data_type = "currency_triple"
    THEN StoreTriple(d, field_def.field_name, TripleOf(toks, fm[3]))
    ELSE extract_group_value(d, field_def, CapToken(patterns, toks, fm),
                             CapClass(patterns, fm), now_year)

\* "for pattern in patterns" without the break: every pattern that matches
\* stores its capture, so the last one that matches stays
RECURSIVE LastMatch(_, _, _)
LastMatch(patterns, toks, i) ==
    IF i < 1 THEN Fail
    ELSE LET r == SearchAlt(patterns[i].alts, toks)
         IN  IF r # Fail THEN <<i, r[1], r[2]>> ELSE LastMatch(patterns, toks, i - 1)

CatalogField_without_break(d, toks, n, now_year) ==
    LET field_def == field_definitions[n]
        patterns == compiled_patterns(field_def.field_name)
        fm == LastMatch(patterns, toks, Len(patterns))
    IN  IF Get(d, field_def.field_name) # None \/ fm = Fail THEN d
        ELSE extract_field_value(d, field_def, patterns, toks, fm, now_year)

\* one turn of "for field_name, patterns in compiled_patterns.items()": a field
\* that already holds a value is skipped, the first pattern that matches is used
CatalogField(d, toks, n, now_year) ==
    LET field_def == field_definitions[n]
        patterns == compiled_patterns(field_def.field_name)
        fm == FirstMatch(patterns, toks, 1)
    IN  IF Get(d, field_def.field_name) # None \/ fm = Fail THEN d
        ELSE extract_field_value(d, field_def, patterns, toks, fm, now_year)

\* F(e), with e evaluated before F is entered
Strict(F(_), e) == CHOOSE r \in {F(v) : v \in {e}} : TRUE

\* one turn of the loop on acc.d; acc.visited lists the fields whose patterns
\* the loop has tried so far (the turns that did not "continue"), in order
CatalogTurn(acc, toks, n, now_year) ==
    [d |-> CatalogField(acc.d, toks, n, now_year),
     visited |-> IF Get(acc.d, field_definitions[n].field_name) # None
                 THEN acc.visited
                 ELSE Append(acc.visited, n)]

\* the turns lo .. hi of the loop, in catalog order (split in halves, each half
\* evaluated before the next is entered, to keep the evaluation shallow)
RECURSIVE CatalogRange(_, _, _, _, _)
CatalogRange(acc, toks, lo, hi, now_year) ==
    IF lo = hi THEN CatalogTurn(acc, toks, lo, now_year)
    ELSE LET mid == (lo + hi) \div 2
         IN  Strict(LAMBDA half : CatalogRange(half, toks, mid + 1, hi, now_year),
                    CatalogRange(acc, toks, lo, mid, now_year))

\* the whole loop: the record it leaves and the fields it tried
CatalogRun(d, toks, now_year) ==
    CatalogRange([d |-> d, visited |-> <<>>], toks, 1, Len(field_definitions), now_year)

CatalogPass(d, toks, now_year) == CatalogRun(d, toks, now_year).d

----------------------------------------------------------------------------
(* Step 6: UPSMatrixProcessor._post_process_shipment_data, the identifier   *)
(* check (the service name and ZIP clean-ups leave the values of the model  *)
(* as they are).                                                            *)

\* tracking.startswith('1Z'), for the identifiers of the vocabulary
StartsWith1Z(id) == id \in ValidIdentifiers

\* re.search(r'1Z[A-Z0-9]{16}', tracking), case-sensitive
EmbeddedIdentifier(id) == IF id \in ValidIdentifiers THEN Some(id) ELSE None

post_process_shipment_data(d) ==
    LET tracking == Get(d, "tracking_number")
    IN  IF tracking = None THEN d
        ELSE IF ~StartsWith1Z(tracking[1]) \/ Len(tracking[1]) # 18
             THEN IF EmbeddedIdentifier(tracking[1]) # None
                  THEN Put(d, "tracking_number", EmbeddedIdentifier(tracking[1]))
                  ELSE d
             ELSE d

----------------------------------------------------------------------------
(* UPSMatrixProcessor.process_shipment_matrix.  The reference and receiver  *)
(* stages (steps 3 and 4) write only their own fields, which the pages of   *)
(* the model never fill.                                                    *)

\* process_shipment_matrix with what its catalog loop met: the invoice_data it
\* received, the record before and after the loop and the fields the loop tried
matrix_trace(matrix_text, invoice_data, now_year) ==
    Strict(LAMBDA s2 :
               Strict(LAMBDA run :
                          [received |-> invoice_data,
                           before |-> s2,
                           after |-> run.d,
                           visited |-> run.visited,
                           now_year |-> now_year,
                           shipment |-> calculate_correct_totals(post_process_shipment_data(run.d))],
                      CatalogRun(s2, matrix_text, now_year)),
           Update(Update(BlankShipment(invoice_data),
                         extract_main_shipment_line_enhanced(matrix_text, now_year)),
                  extract_all_surcharges(matrix_text)))

process_shipment_matrix(matrix_text, invoice_data, now_year) ==
    matrix_trace(matrix_text, invoice_data, now_year).shipment

----------------------------------------------------------------------------
(* InvoiceParser.parse_invoice *)

\* "shipment = invoice_data": the writes of process_shipment_matrix and of the
\* loop of parse_invoice go to the caller's dict
invoice_data_shared(invoice_data, shipment_data) == shipment_data

\* the caller's invoice_data after a call that returned shipment_data:
\* "shipment = invoice_data.copy()" gives the writes a dict of their own, and
\* the values of invoice_data are strings and integers
invoice_data_after(invoice_data, shipment_data) == invoice_data

\* the loop over shipment_matrices from matrix i on: result_list, the trace of
\* each call, and invoice_data as the loop leaves it
RECURSIVE ProcessMatrices(_, _, _, _)
ProcessMatrices(matrices, invoice_data, i, now_year) ==
    IF i > Len(matrices)
    THEN [result_list |-> <<>>, log |-> <<>>, invoice_data |-> invoice_data]
    ELSE Strict(LAMBDA tr :
             LET kept == TruthyStr(Get(tr.shipment, "tracking_number"))
                 shipment_data == IF kept
                                  THEN Put(Put(tr.shipment, "matrix_index", Some(i)),
                                           "processing_type", Some("Matrix-Based"))
                                  ELSE tr.shipment
             IN  Strict(LAMBDA rest :
                            [result_list |-> (IF kept THEN <<shipment_data>> ELSE <<>>)
                                             \o rest.result_list,
                             log |-> << [received |-> tr.received, before |-> tr.before,
                                         after |-> tr.after, visited |-> tr.visited,
                                         now_year |-> tr.now_year] >> \o rest.log,
                             invoice_data |-> rest.invoice_data],
                        ProcessMatrices(matrices, invoice_data_after(invoice_data, shipment_data),
                                        i + 1, now_year)),
             matrix_trace(matrices[i].matrix_text, invoice_data, now_year))

\* parse_invoice with the traces of its calls; headers is <<>> when the page is
\* turned away, else invoice_data as created and as the loop left it
parse_invoice_run(toks, now_year) ==
    IF ~is_invoice_page(toks) THEN [result_list |-> <<>>, log |-> <<>>, headers |-> <<>>]
    ELSE Strict(LAMBDA created :
                    Strict(LAMBDA run : [result_list |-> run.result_list, log |-> run.log,
                                         headers |-> <<created, run.invoice_data>>],
                           ProcessMatrices(split_into_enhanced_shipment_matrices(toks),
                                           created, 1, now_year)),
                extract_invoice_level_data(toks))

parse_invoice(toks, now_year) == parse_invoice_run(toks, now_year).result_list

----------------------------------------------------------------------------
(* parse_invoice on the pages of a small vocabulary of invoice lines.       *)

MaxLines == 3       \* lines on a page
MaxParses == 2      \* calls of parse_invoice on the same page

\* the years the clock shows while the page is parsed
ClockYears == {2026, 2027}

\* the lines a page is made of
InvoiceDateLine == << Word("Invoice"), Word("Date"), Tok("longdate", "August 14, 2024", 2024) >>
MainLine == << DateTok(814), Trk("1Z999AA10123456784"), Word("Ground"), Word("Residential"),
               IntTok(30301), IntTok(2), Dec1(50), Amt(1000), Amt(-200), Amt(800) >>
ShortMainLine == << DateTok(815), Trk("1Z999AA10123456785"), Word("Ground") >>
LowercaseLine == << Trk("1z999aa10123456784"), Word("ground"), Word("residential"),
                    IntTok(30301), IntTok(2), Dec1(50), Amt(1000), Amt(-200), Amt(800) >>
FuelLine == << Word("Fuel"), Word("Surcharge"), Amt(100), Amt(0), Amt(100) >>
ZeroFuelLine == << Word("Fuel"), Word("Surcharge"), Amt(0), Amt(0), Amt(0) >>
TotalLine == << Word("Total"), Amt(500), Amt(0), Amt(500) >>
PageLine == << Word("Page"), IntTok(1), Word("of"), IntTok(2) >>
PublishedLine == << Word("Published"), Amt(500) >>
BillingSummaryLine == << Word("Consolidated"), Word("Billing"), Word("Summary") >>

LineMenu == { InvoiceDateLine, MainLine, ShortMainLine, LowercaseLine, FuelLine,
              ZeroFuelLine, TotalLine, PageLine, BillingSummaryLine }

RECURSIVE Flatten(_)
Flatten(lines) == IF lines = <<>> THEN <<>> ELSE lines[1] \o Flatten(Tail(lines))

\* a block in which two patterns of published_charge match: the first amount
\* of three, and the amount after the word Published
LabelledChargePage == Flatten(<<ShortMainLine, PublishedLine, FuelLine>>)

Pages == {Flatten(ls) : ls \in SeqsUpTo(LineMenu, MaxLines)} \cup {LabelledChargePage}

InitParse ==
    /\ words \in Pages
    /\ clock_year \in ClockYears
    /\ shipment_matrices = <<>>
    /\ parse_results = <<>>
    /\ catalog_log = <<>>
    /\ header_log = <<>>
    /\ ExtractIdle
    /\ TotalsIdle
    /\ MergeIdle
    /\ DocumentIdle

\* one call of parse_invoice(image, words, boxes)
ParseInvoice ==
    /\ Len(parse_results) < MaxParses
    /\ \E run \in {parse_invoice_run(words, clock_year)} :
           /\ parse_results' = Append(parse_results, run.result_list)
           /\ catalog_log' = Append(catalog_log, run.log)
           /\ header_log' = Append(header_log, run.headers)
    /\ shipment_matrices' = IF is_invoice_page(words)
                            THEN split_into_enhanced_shipment_matrices(words)
                            ELSE shipment_matrices
    /\ UNCHANGED <<words, clock_year, matches, extracting, handled, totals_vars, merge_vars,
                   document_vars>>

\* the calendar year changes between two calls
NewYear ==
    /\ clock_year + 1 \in ClockYears
    /\ clock_year' = clock_year + 1
    /\ UNCHANGED <<words, shipment_matrices, parse_results, catalog_log, header_log,
                   matches, extracting, handled, totals_vars, merge_vars, document_vars>>

NextParse == ParseInvoice \/ NewYear

SpecParse == InitParse /\ [][NextParse]_vars

----------------------------------------------------------------------------
(* UPSMatrixProcessor._extract_field_value on its own: the catalog loop     *)
(* hands it one match per field, whatever the conversion of the one before  *)
(* gave.                                                                    *)

MaxMatches == 2     \* matches handed to _extract_field_value on one record

\* catalog fields of the four converting data types
ConvertedFields == {"zone", "weight", "published_charge", "delivery_date"}

FieldNamed(n) == CHOOSE i \in 1..Len(field_definitions) : field_definitions[i].field_name = n
DataTypeOf(n) == field_definitions[FieldNamed(n)].data_type

\* group 1 of a match: numbers, a word, and dates without and with a year
GroupMenu ==
    { IntTok(2), Dec1(50), Amt(1000), Amt(-200), Word("Ground"), DateTok(814),
      DateWithYear("date_yy", "08/14/24", 24, 814),
      DateWithYear("date_yyyy", "08/14/2024", 2024, 814),
      Tok("longdate", "August 14, 2024", 2024) }

MatchMenu == [field_name : ConvertedFields, group : GroupMenu]

\* one match per field: the loop leaves a field at its first match
MatchLists ==
    { ms \in SeqsUpTo(MatchMenu, MaxMatches) :
          /\ ms # <<>>
          /\ \A i \in 1..Len(ms) : \A j \in 1..Len(ms) :
                 ms[i].field_name = ms[j].field_name => i = j }

\* invoice_data without and with the invoice date
HeaderMenu == { EmptyDict, extract_invoice_level_data(InvoiceDateLine) }

InitExtract ==
    /\ matches \in MatchLists
    /\ extracting \in {BlankShipment(h) : h \in HeaderMenu}
    /\ handled = <<>>
    /\ clock_year \in ClockYears
    /\ NothingParsed
    /\ TotalsIdle
    /\ MergeIdle
    /\ DocumentIdle

\* one call of _extract_field_value(shipment, field_name, field_def, match)
ExtractFieldValue ==
    /\ matches # <<>>
    /\ LET m == Head(matches)
       IN  /\ extracting' = extract_group_value(extracting, field_definitions[FieldNamed(m.field_name)],
                                                m.group, "amt_s", clock_year)
           /\ handled' = Append(handled, [field_name |-> m.field_name, group |-> m.group,
                                          now_year |-> clock_year])
    /\ matches' = Tail(matches)
    /\ UNCHANGED <<words, clock_year, shipment_matrices, parse_results, catalog_log,
                   header_log, totals_vars, merge_vars, document_vars>>

NextExtract == ExtractFieldValue \/ NewYear

SpecExtract == InitExtract /\ [][NextExtract]_vars

----------------------------------------------------------------------------
(* Claims about the Segmenter *)

\* where the identifiers of a text stand, in text order
IdentifierSeq(toks) == SelectSeq([i \in 1..Len(toks) |-> i], LAMBDA i : toks[i].k = "trk")

\* every identifier is well-formed and stands behind a date: 'MM/DD 1Z...'
WellSeparated(toks) ==
    \A i \in 1..Len(toks) :
        toks[i].k = "trk" => toks[i].s \in ValidIdentifiers /\ i > 1 /\ toks[i - 1].k = "date"

\* the text from the date of identifier k to the date of the next one (the end
\* of the text for the last one)
BlockSpan(toks, ids, k) ==
    SubSeq(toks, ids[k] - 1, IF k < Len(ids) THEN ids[k + 1] - 2 ELSE Len(toks))

\* matrix m is the block of the identifier at token i and holds no other identifier
IsBlockOf(m, toks, i) ==
    /\ m.matrix_text # <<>>
    /\ m.matrix_length > 0
    /\ Len(IdentifierSeq(m.matrix_text)) = 1
    /\ m.tracking_number = Some(toks[i].s)
    /\ m.start_pos = CharPos(toks, i - 1)

----------------------------------------------------------------------------
(* Claims about parse_invoice *)

\* C5 as stated: every record parse_invoice returns carries a tracking_number
\* of the valid format (1Z and 16 characters of A-Z, 0-9), and a matrix in
\* which no identifier is found gives no record.
C5_ValidIdentifierOnEveryRecord ==
    /\ \A r \in 1..Len(parse_results) : \A j \in 1..Len(parse_results[r]) :
           LET rec == parse_results[r][j]
           IN  /\ Get(rec, "tracking_number") # None
               /\ Get(rec, "tracking_number")[1] \in ValidIdentifiers
    /\ \A r \in 1..Len(parse_results) : \A i \in 1..Len(shipment_matrices) :
           IdentifierSeq(shipment_matrices[i].matrix_text) = <<>> =>
               \A j \in 1..Len(parse_results[r]) :
                   Get(parse_results[r][j], "matrix_index") # Some(i)

\* C6 as stated: every call of parse_invoice on the same page returns the
\* same list of records, whatever happened between the calls.
C6_SameOutputEveryRun ==
    \A r1 \in 1..Len(parse_results) : \A r2 \in 1..Len(parse_results) :
        parse_results[r1] = parse_results[r2]

\* the triple the catalog's 'Total' patterns match in a matrix, None if they match nothing
CatalogLineTotal(matrix_text) ==
    LET fm == FirstMatch(compiled_patterns("line_total"), matrix_text, 1)
    IN  IF fm = Fail THEN None ELSE Some(TripleOf(matrix_text, fm[3]))

\* the four line_total fields of a record hold the triple t
LineTotalIs(rec, t) ==
    /\ Get(rec, "line_total") = Some(t)
    /\ Get(rec, "line_total_published") = Some(t.published)
    /\ Get(rec, "line_total_incentive") = Some(t.incentive)
    /\ Get(rec, "line_total_billed") = Some(t.billed)

\* the totals the calculator derives from the charges of a record
DerivedTotals(rec) == Triple(published_total(rec), incentive_total(rec), billed_total(rec))

\* the matrix a returned record was made from
MatrixOf(rec) == shipment_matrices[Get(rec, "matrix_index")[1]]

\* C8 as stated: when the catalog pass stored the line total of a block from
\* a 'Total' line, the line_total fields of the returned record hold the
\* totals the calculator derives, not the matched ones.
C8_DerivedTotalsReplaceMatched ==
    \A r \in 1..Len(parse_results) : \A j \in 1..Len(parse_results[r]) :
        LET rec == parse_results[r][j]
        IN  CatalogLineTotal(MatrixOf(rec).matrix_text) # None =>
                LineTotalIs(rec, DerivedTotals(rec))

\* C8, amended: when the catalog pass stored the line total of a block from
\* a 'Total' line, the line_total fields of the returned record hold the
\* derived totals if the derived published total is positive, the derived
\* incentive total is not zero or the derived billed total is positive;
\* otherwise they keep the matched values.
C8_DerivedTotalsReplaceMatchedWhenWritten ==
    \A r \in 1..Len(parse_results) : \A j \in 1..Len(parse_results[r]) :
        LET rec == parse_results[r][j]
            matched == CatalogLineTotal(MatrixOf(rec).matrix_text)
            derived == DerivedTotals(rec)
        IN  matched # None =>
                IF derived.published > 0 \/ derived.incentive # 0 \/ derived.billed > 0
                THEN LineTotalIs(rec, derived)
                ELSE LineTotalIs(rec, matched[1])

\* a record whose block has a 'Total' line with other amounts than the derived totals
C8_Witness ==
    \E r \in 1..Len(parse_results) : \E j \in 1..Len(parse_results[r]) :
        LET rec == parse_results[r][j]
            matched == CatalogLineTotal(MatrixOf(rec).matrix_text)
        IN  /\ matched # None
            /\ matched[1] # DerivedTotals(rec)
            /\ LineTotalIs(rec, DerivedTotals(rec))

----------------------------------------------------------------------------
(* Currency triples of the returned records *)

\* the structured value of F and its three scalars are all absent, or all
\* present with the same three amounts
TripleConsistent(rec, F) ==
    LET v == Get(rec, F)
    IN  IF v = None
        THEN \A c \in {"published", "incentive", "billed"} : Get(rec, SubKey(F, c)) = None
        ELSE \A c \in {"published", "incentive", "billed"} :
                Get(rec, SubKey(F, c)) = Some(v[1][c])

\* C11: in every record returned by process_shipment_matrix, for every
\* currency-triple field F of the catalog (the surcharges and line_total),
\* F and F_published, F_incentive, F_billed are all absent or all present
\* with equal amounts, whichever stage wrote them.
C11_TriplesConsistent ==
    \A r \in 1..Len(parse_results) : \A j \in 1..Len(parse_results[r]) :
        \A F \in CurrencyTripleFields : TripleConsistent(parse_results[r][j], F)

\* a record with a surcharge written by the surcharge stage and a line total
\* matched by the catalog pass and then rewritten by the calculator
C11_Witness ==
    \E r \in 1..Len(parse_results) : \E j \in 1..Len(parse_results[r]) :
        LET rec == parse_results[r][j]
            matched == CatalogLineTotal(MatrixOf(rec).matrix_text)
        IN  /\ Get(rec, "fuel_surcharge") # None
            /\ matched # None
            /\ Get(rec, "line_total") # None
            /\ Get(rec, "line_total") # matched

----------------------------------------------------------------------------
(* Boundary detector: PDFTextExtractor.extract_invoice_groups.  Pages are   *)
(* numbered from 0, as in the code; the text of page p is doc[p + 1].       *)

\* "Consolidated Billing Summary" / "Consolidated Remittance Summary" in text
\* (the in operator: as written, case-sensitive)
summary_keywords ==
    << <<LitCS({"Consolidated"}), LitCS({"Billing"}), LitCS({"Summary"})>>,
       <<LitCS({"Consolidated"}), LitCS({"Remittance"}), LitCS({"Summary"})>> >>

is_summary_page(text) ==
    \E i \in 1..Len(summary_keywords) : Search(summary_keywords[i], text) # Fail

\* _is_invoice_start_page: both searches with IGNORECASE
is_invoice_start_page(text) ==
    /\ Search(<<Lit({"delivery"}), Lit({"service"}), Lit({"invoice"})>>, text) # Fail
    /\ Search(<<Lit({"page"}), One("int_1"), Lit({"of"}), One("int")>>, text) # Fail

\* _extract_invoice_header_info; of its five patterns only the invoice date
\* has words in the vocabulary
extract_invoice_header_info(text) ==
    LET m == Search(<<Lit({"invoice"}), Lit({"date"}), One("longdate")>>, text)
    IN  IF m = Fail THEN EmptyDict
        ELSE Put(EmptyDict, "invoice_date", Some(text[m[1][3]].s))

\* current_group before the first page, in the mutant an open group
initial_group_open == Some(EmptyDict)

\* current_group = None
initial_group == None

\* a group is saved only while no group was saved yet
SaveGroup_once(groups, current_group, current_pages) ==
    IF current_group # None /\ current_pages # <<>> /\ groups = <<>>
    THEN Append(groups, [invoice_header |-> current_group[1],
                         page_range |-> <<current_pages[1], current_pages[Len(current_pages)]>>,
                         page_count |-> Len(current_pages),
                         pages |-> current_pages])
    ELSE groups

\* "if current_group is not None and current_pages: groups.append({...})"
SaveGroup(groups, current_group, current_pages) ==
    IF current_group # None /\ current_pages # <<>>
    THEN Append(groups, [invoice_header |-> current_group[1],
                         page_range |-> <<current_pages[1], current_pages[Len(current_pages)]>>,
                         page_count |-> Len(current_pages),
                         pages |-> current_pages])
    ELSE groups

\* the loop "for page_num in range(total_pages)" from page_num on, and the
\* save of the last group after it
RECURSIVE GroupPages(_, _, _, _, _)
GroupPages(pages, page_num, groups, current_group, current_pages) ==
    IF page_num >= Len(pages) THEN SaveGroup(groups, current_group, current_pages)
    ELSE LET text == pages[page_num + 1]
         IN  IF is_summary_page(text)
             THEN GroupPages(pages, page_num + 1, groups, current_group, current_pages)
             ELSE IF is_invoice_start_page(text)
             THEN GroupPages(pages, page_num + 1,
                             SaveGroup(groups, current_group, current_pages),
                             Some(extract_invoice_header_info(text)), <<page_num>>)
             ELSE IF current_group # None
             THEN GroupPages(pages, page_num + 1, groups, current_group,
                             Append(current_pages, page_num))
             ELSE GroupPages(pages, page_num + 1, groups, current_group, current_pages)

extract_invoice_groups(pages) == GroupPages(pages, 0, <<>>, initial_group, <<>>)

----------------------------------------------------------------------------
(* The documents handed to the boundary detector *)

MaxPages == 3       \* pages of a document

TitleLine == << Word("Delivery"), Word("Service"), Word("Invoice") >>
PageTwoLine == << Word("Page"), IntTok(2), Word("of"), IntTok(2) >>

\* first page of an invoice
StartPage == TitleLine \o InvoiceDateLine \o PageLine
\* the same signature in lower case
LowerStartPage == << Word("delivery"), Word("service"), Word("invoice"),
                     Word("page"), IntTok(1), Word("of"), IntTok(2) >>
\* the title on a page that is not page 1
ContinuationPage == TitleLine \o PageTwoLine \o MainLine
\* a page of shipments without title
ShipmentPage == MainLine \o FuelLine
\* a summary page
BillingSummaryPage == BillingSummaryLine \o PageTwoLine
\* a summary page that also carries the title and the marker of a first page
SummaryStartPage ==
    TitleLine \o PageLine \o << Word("Consolidated"), Word("Remittance"), Word("Summary") >>
\* the summary title in lower case, which the keyword test does not find
LowerSummaryPage == << Word("consolidated"), Word("billing"), Word("summary") >>

PageMenu == { StartPage, LowerStartPage, ContinuationPage, ShipmentPage,
              BillingSummaryPage, SummaryStartPage, LowerSummaryPage }

Documents == SeqsUpTo(PageMenu, MaxPages)

InitGroups ==
    /\ doc \in Documents
    /\ invoice_groups = <<>>
    /\ groups_pc = "input"
    /\ TotalsIdle
    /\ MergeIdle
    /\ ParseIdle
    /\ ResolverIdle
    /\ ProcessIdle

ExtractInvoiceGroups ==
    /\ groups_pc = "input"
    /\ invoice_groups' = extract_invoice_groups(doc)
    /\ groups_pc' = "done"
    /\ UNCHANGED <<doc, totals_vars, merge_vars, parse_vars, resolver_vars, process_vars>>

NextGroups == ExtractInvoiceGroups

SpecGroups == InitGroups /\ [][NextGroups]_vars

----------------------------------------------------------------------------
(* Claims on the boundary detector *)

PageNumbers == 0..(Len(doc) - 1)

\* the returned units whose first page is page p
UnitsStartingAt(p) == {g \in 1..Len(invoice_groups) : invoice_groups[g].pages[1] = p}

\* C12 as stated: a page is the first page of exactly one returned unit if
\* and only if its text matches the invoice-start signature.
C12_StartSignatureIffFirstPage ==
    groups_pc = "done" =>
        \A p \in PageNumbers :
            is_invoice_start_page(doc[p + 1]) <=> Cardinality(UnitsStartingAt(p)) = 1

\* C12, amended: a page is the first page of exactly one returned unit if and
\* only if its text matches the invoice-start signature and holds no keyword
\* of the summary deny-list; no page is the first page of two units.
C12_StartSignatureOffDenyListIffFirstPage ==
    groups_pc = "done" =>
        \A p \in PageNumbers :
            /\ (is_invoice_start_page(doc[p + 1]) /\ ~is_summary_page(doc[p + 1]))
                   <=> Cardinality(UnitsStartingAt(p)) = 1
            /\ Cardinality(UnitsStartingAt(p)) <= 1

\* a document with two units and a page that matches both the start
\* signature and the deny-list
C12_Witness ==
    /\ groups_pc = "done"
    /\ Len(invoice_groups) = 2
    /\ \E p \in PageNumbers : is_invoice_start_page(doc[p + 1]) /\ is_summary_page(doc[p + 1])

\* C13: for a document in which no page matches the invoice-start
\* signature, extract_invoice_groups returns the empty list.
C13_NoStartPageNoUnits ==
    (groups_pc = "done" /\ \A p \in PageNumbers : ~is_invoice_start_page(doc[p + 1]))
        => invoice_groups = <<>>

\* a document of summary pages only, for which the empty list was returned
C13_Witness ==
    /\ groups_pc = "done"
    /\ Len(doc) >= 2
    /\ \A p \in PageNumbers : is_summary_page(doc[p + 1]) /\ ~is_invoice_start_page(doc[p + 1])
    /\ invoice_groups = <<>>

\* C14 as stated: the pages of every returned unit are consecutive page
\* numbers, its page_range covers exactly those pages, and no page of the
\* summary deny-list lies in its page list or inside its page_range.
C14_UnitsContiguousWithoutSummary ==
    groups_pc = "done" =>
        \A g \in 1..Len(invoice_groups) :
            LET u == invoice_groups[g]
                range == u.page_range[1]..u.page_range[2]
            IN  /\ \A k \in 1..(Len(u.pages) - 1) : u.pages[k + 1] = u.pages[k] + 1
                /\ {u.pages[k] : k \in 1..Len(u.pages)} = range
                /\ \A p \in range : ~is_summary_page(doc[p + 1])

----------------------------------------------------------------------------
(* Block spans of the Segmenter *)

\* the tokens after token b at which an end marker of the fixed set starts
MarkerStartsAfter(toks, b) ==
    {at \in (b + 1)..Len(toks) :
        \E i \in 1..Len(end_markers) : MatchAt(end_markers[i], 1, toks, at) # Fail}

\* offset of the nearest end marker after token b, the length of the text if there is none
NearestEnd(toks, b) ==
    LET S == MarkerStartsAfter(toks, b)
    IN  IF S = {} THEN TextLen(toks)
        ELSE CharPos(toks, CHOOSE at \in S : \A x \in S : at <= x)

\* C15 as stated: every block except the last spans from its boundary's
\* start to the next boundary's start; the last block spans from its
\* boundary's start to the nearest occurrence, after the boundary, of any end
\* marker, and to the end of the text if no end marker occurs after it.
C15_LastBlockEndsAtNearestMarker ==
    LET bs == Boundaries(words)
    IN  \A k \in 1..Len(shipment_matrices) : \A i \in 1..Len(bs) :
            LET m == shipment_matrices[k]
                b == MatchStart(bs[i])
            IN  m.start_pos = CharPos(words, b) =>
                    m.end_pos = IF i < Len(bs)
                                THEN CharPos(words, MatchStart(bs[i + 1]))
                                ELSE NearestEnd(words, b)

----------------------------------------------------------------------------
(* The worked example of the Field Extraction Engine *)

\* the fields of the example other than the shipment date
ExampleFieldsWithoutDate(rec) ==
    /\ Get(rec, "tracking_number") = Some("1Z999AA10123456784")
    /\ Get(rec, "destination_zip") = Some(30301)
    /\ Get(rec, "weight") = Some(500)
    /\ Get(rec, "published_charge") = Some(1000)
    /\ Get(rec, "incentive_credit") = Some(-200)
    /\ Get(rec, "billed_charge") = Some(800)

\* C17 as stated: for the block "08/14 1Z999AA10123456784 Ground Residential
\* 30301 2 5.0 10.00 -2.00 8.00" and an invoice header with a derived invoice
\* year Y, the record has tracking_number 1Z999AA10123456784, shipment_date
\* Y-08-14, destination_zip 30301, weight 5.0, published_charge 10.00,
\* incentive_credit -2.00 and billed_charge 8.00.
C17_ExampleWithInvoiceYear ==
    \A r \in 1..Len(parse_results) : \A j \in 1..Len(parse_results[r]) :
        LET rec == parse_results[r][j]
            Y == Get(rec, "invoice_year")
        IN  (MatrixOf(rec).matrix_text = MainLine /\ Y # None) =>
                /\ ExampleFieldsWithoutDate(rec)
                /\ Get(rec, "shipment_date") = Some([year |-> Y[1], month |-> 8, day |-> 14])

----------------------------------------------------------------------------
(* Identity Resolver: DirectInvoiceParser._extract_five_fields.             *)
(* A block is a list of words. A name is kept as the list of its words, an  *)
(* address as the list of its tokens; the empty string is the empty list.   *)
(* A long date ('August 14, 2024') is one token here and three words in the *)
(* text; the blocks of the model hold none.                                 *)

\* the words of upper-case letters in the vocabulary
UpperWords == {"ACME", "SUPPLY", "JOHN", "SMITH", "RESIDENTIAL", "SURCHARGE", "GA"}

HasColon(t) == t.k = "word" /\ Lower(t.s) \in {"sender:", "receiver:"}
\* [A-Z]{2,}, case-sensitive
IsUpper(t) == t.k = "word" /\ t.s \in UpperWords
\* [A-Za-z]+: every word of the vocabulary but the labels
IsAlpha(t) == t.k = "word" /\ ~HasColon(t)
\* \d at the start of a word ('-2.00' starts with the sign)
StartsWithDigit(t) == t.k \in {"int", "trk", "date", "dec1"} \/ (t.k = "amt" /\ t.n >= 0)
\* \d at the end of a word
EndsWithDigit(t) == t.k \in {"int", "trk", "date", "dec1", "amt", "longdate"}
\* [A-Z0-9] at the start of a word, case ignored
StartsAlnum(t) == ~(t.k = "amt" /\ t.n < 0)
\* \d{5} at the start of a word
StartsWithFiveDigits(t) == t.k = "int" /\ t.n >= 10000

\* the digits at the end of an identifier
TrailingDigits(id) ==
    CASE id = "1Z999AA10123456784" -> "10123456784"
      [] id = "1Z999AA10123456785" -> "10123456785"
      [] OTHER -> "10123456784"

\* the part of a word that \d+ matches at its end
DigitTail(t) ==
    CASE t.k = "trk"  -> Tok("digits", TrailingDigits(t.s), 0)
      [] t.k = "date" -> Tok("digits", Pad2(t.n % 100), 0)
      [] t.k = "dec1" -> Tok("digits", ToString(t.n % 10), 0)
      [] t.k = "amt"  -> Tok("digits", Pad2(Abs(t.n) % 100), 0)
      [] t.k = "longdate" -> Tok("digits", ToString(t.n), 0)
      [] OTHER -> t

\* len(' '.join(words))
RECURSIVE NameLen(_)
NameLen(ws) ==
    IF ws = <<>> THEN 0
    ELSE IF Len(ws) = 1 THEN Len(ws[1])
    ELSE Len(ws[1]) + 1 + NameLen(Tail(ws))

WordsOf(toks) == [i \in 1..Len(toks) |-> toks[i].s]

\* the first token from i on that is not a word of letters (Len + 1 if none)
RECURSIVE NameStop(_, _)
NameStop(toks, i) ==
    IF i > Len(toks) \/ ~IsAlpha(toks[i]) THEN i ELSE NameStop(toks, i + 1)

\* '[^:]*?[A-Z]{2}\s+\d{5}' from token k on: the index of the ZIP token of the
\* first word that ends in two letters and is followed by five digits, 0 if
\* a colon or the end of the block comes first; min_len is the number of
\* characters token k needs to hold the two letters
RECURSIVE AddressEnd(_, _, _)
AddressEnd(toks, k, min_len) ==
    IF k + 1 > Len(toks) \/ HasColon(toks[k]) THEN 0
    ELSE IF IsAlpha(toks[k]) /\ TokLen(toks[k]) >= min_len /\ StartsWithFiveDigits(toks[k + 1])
         THEN k + 1
         ELSE AddressEnd(toks, k + 1, 2)

\* re.search of the sender_pattern / receiver_pattern from token i on:
\* << first word of the name, first word of the address, ZIP token >>, Fail if no match
RECURSIVE LabelSearch(_, _, _)
LabelSearch(toks, label, i) ==
    IF i > Len(toks) THEN Fail
    ELSE LET j == NameStop(toks, i + 1)
             z == IF j <= Len(toks) /\ StartsWithDigit(toks[j]) THEN AddressEnd(toks, j, 2) ELSE 0
         IN  IF /\ toks[i].k = "word" /\ Lower(toks[i].s) = label
                /\ j > i + 1
                /\ NameLen(WordsOf(SubSeq(toks, i + 1, j - 1))) \in 3..41
                /\ z # 0
             THEN <<i + 1, j, z>>
             ELSE LabelSearch(toks, label, i + 1)

\* Method 1 for one label: name and address from the explicit pattern
\* ("if len(clean_name) >= 4 and not re.match(r'^\d', clean_name)")
Method1(data, toks, label, name_key, address_key) ==
    LET m == LabelSearch(toks, label, 1)
    IN  IF m = Fail THEN data
        ELSE LET clean_name == WordsOf(SubSeq(toks, m[1], m[2] - 1))
             IN  IF NameLen(clean_name) >= 4
                 THEN Put(Put(data, name_key, clean_name), address_key, SubSeq(toks, m[2], m[3]))
                 ELSE data

\* the alternatives of the filter on candidate names, in lower case
name_deny_words ==
    {"delivery", "service", "invoice", "customer", "weight", "residential", "surcharge",
     "fuel", "dimensions", "total", "userid", "userids", "sender", "receiver", "ground",
     "next", "day", "air", "tracking", "number", "account", "page", "venture", "ct", "ky",
     "nv", "ave", "street", "st", "road", "rd", "drive", "dr", "lane", "ln", "court",
     "blvd", "boulevard"}

\* re.match(r'^(DELIVERY|...)(\s+\w+)*$', name, re.IGNORECASE): the FIRST word is on the list
IsDenied(name) == Lower(name[1]) \in name_deny_words

\* the first token from i on that is not an upper-case word
RECURSIVE RunEnd(_, _)
RunEnd(toks, i) == IF i > Len(toks) \/ ~IsUpper(toks[i]) THEN i ELSE RunEnd(toks, i + 1)

\* all_names: the runs of upper-case words that pass the filter, with the
\* token each starts at
RECURSIVE AllNames(_, _)
AllNames(toks, i) ==
    IF i > Len(toks) THEN <<>>
    ELSE IF ~IsUpper(toks[i]) THEN AllNames(toks, i + 1)
    ELSE LET j == RunEnd(toks, i)
             name == WordsOf(SubSeq(toks, i, j - 1))
         IN  (IF ~IsDenied(name) /\ NameLen(name) >= 4 /\ NameLen(name) <= 40
              THEN << [value |-> name, pos |-> i] >> ELSE <<>>)
             \o AllNames(toks, j)

service_words == {"ground", "air", "next", "day", "residential", "commercial"}
charge_words == {"service", "surcharge", "weight", "total"}

\* re.sub(r'\s+(Ground|...|Commercial)\s+', ' ', address): a listed word
\* between two others is removed; the match takes the white space after it,
\* so the word that follows a removed word stays
RECURSIVE RemoveServiceWords(_, _)
RemoveServiceWords(toks, i) ==
    IF i >= Len(toks) THEN toks
    ELSE IF toks[i].k = "word" /\ Lower(toks[i].s) \in service_words /\ i > 1
         THEN RemoveServiceWords(SubSeq(toks, 1, i - 1) \o SubSeq(toks, i + 1, Len(toks)), i + 1)
         ELSE RemoveServiceWords(toks, i + 1)

\* re.sub(r'\s+(Service|Surcharge|Weight|Total)\b.*', '', address)
RECURSIVE CutAtChargeWord(_, _)
CutAtChargeWord(toks, i) ==
    IF i > Len(toks) THEN toks
    ELSE IF toks[i].k = "word" /\ Lower(toks[i].s) \in charge_words
         THEN SubSeq(toks, 1, i - 1)
         ELSE CutAtChargeWord(toks, i + 1)

\* all_addresses: the matches of address_pattern from token a on, cleaned,
\* those of at least 10 characters, with the token each starts at
RECURSIVE AllAddresses(_, _)
AllAddresses(toks, a) ==
    IF a + 1 > Len(toks) THEN <<>>
    ELSE LET z == IF EndsWithDigit(toks[a]) /\ StartsAlnum(toks[a + 1])
                  THEN AddressEnd(toks, a + 1, 3) ELSE 0
         IN  IF z = 0 THEN AllAddresses(toks, a + 1)
             ELSE LET address == <<DigitTail(toks[a])>> \o SubSeq(toks, a + 1, z)
                      cleaned_addr == CutAtChargeWord(RemoveServiceWords(address, 2), 2)
                  IN  (IF TextLen(cleaned_addr) >= 10
                       THEN << [value |-> cleaned_addr, pos |-> a] >> ELSE <<>>)
                      \o AllAddresses(toks, z + 1)

\* the token of the first label of the kind, 0 if there is none
RECURSIVE LabelAt(_, _, _)
LabelAt(toks, label, i) ==
    IF i > Len(toks) THEN 0
    ELSE IF toks[i].k = "word" /\ Lower(toks[i].s) = label THEN i
    ELSE LabelAt(toks, label, i + 1)

\* the first candidate that fulfils In, else the fallback candidate
RECURSIVE FirstCandidate(_, _, _, _)
FirstCandidate(cands, In(_), i, fallback) ==
    IF i > Len(cands) THEN cands[fallback].value
    ELSE IF In(cands[i].pos) THEN cands[i].value
    ELSE FirstCandidate(cands, In, i + 1, fallback)

\* "if not data[key] and all_...: ..." for the sender,
\* "if not data[key] and len(all_...) > 1: ..." for the receiver
AssignSender(data, key, cands, sender_section_end, receiver_section_start) ==
    IF data[key] = <<>> /\ cands # <<>>
    THEN Put(data, key,
             FirstCandidate(cands,
                 LAMBDA pos : sender_section_end > 0 /\ pos > sender_section_end
                                 /\ pos < receiver_section_start,
                 1, 1))
    ELSE data

AssignReceiver(data, key, cands, receiver_section_start) ==
    IF data[key] = <<>> /\ Len(cands) > 1
    THEN Put(data, key,
             FirstCandidate(cands, LAMBDA pos : pos > receiver_section_start, 1, Len(cands)))
    ELSE data

\* Method 2: candidates by position
Method2(data, toks) ==
    IF data["sender_name"] # <<>> /\ data["receiver_name"] # <<>> THEN data
    ELSE LET all_names == AllNames(toks, 1)
             all_addresses == AllAddresses(toks, 1)
             sender_section_end == LabelAt(toks, "sender:", 1)
             receiver_at == LabelAt(toks, "receiver:", 1)
             receiver_section_start == IF receiver_at = 0 THEN Len(toks) + 1 ELSE receiver_at
             d1 == AssignSender(data, "sender_name", all_names,
                                sender_section_end, receiver_section_start)
             d2 == AssignReceiver(d1, "receiver_name", all_names, receiver_section_start)
             d3 == AssignSender(d2, "sender_address", all_addresses,
                                sender_section_end, receiver_section_start)
         IN  AssignReceiver(d3, "receiver_address", all_addresses, receiver_section_start)

address_words == {"ct", "court", "ave", "avenue", "st", "street", "rd", "road", "dr",
                  "drive", "blvd", "boulevard", "ln", "lane"}

\* re.sub(r'\s+(CT|COURT|...|LANE)\b.*', '', name): the name is cut before
\* the first address word that is not its first word
RECURSIVE CutAtAddressWord(_, _)
CutAtAddressWord(name, i) ==
    IF i > Len(name) THEN name
    ELSE IF Lower(name[i]) \in address_words THEN SubSeq(name, 1, i - 1)
    ELSE CutAtAddressWord(name, i + 1)

\* Method 3 for one name (names hold no digits, so the two substitutions on
\* digits change nothing)
Method3(data, key) ==
    IF data[key] = <<>> THEN data
    ELSE LET cleaned_name == CutAtAddressWord(data[key], 2)
         IN  Put(data, key, IF NameLen(cleaned_name) >= 4 THEN cleaned_name ELSE <<>>)

BlankFields ==
    [k \in {"tracking_number", "sender_name", "sender_address",
            "receiver_name", "receiver_address"} |-> IF k = "tracking_number" THEN "" ELSE <<>>]

\* data after Method 1, the explicit "Sender:" and "Receiver:" patterns
explicit_labels(toks) ==
    Method1(Method1(BlankFields, toks, "sender:", "sender_name", "sender_address"),
            toks, "receiver:", "receiver_name", "receiver_address")

\* data after Method 2
candidate_step(toks) == Method2(explicit_labels(toks), toks)

extract_five_fields(toks) ==
    LET d3 == candidate_step(toks)
    IN  Method3(Method3(d3, "sender_name"), "receiver_name")

----------------------------------------------------------------------------
(* The blocks handed to the Identity Resolver: an identifier and up to      *)
(* MaxSegments segments                                                     *)

MaxSegments == 3

SenderLabel == << Word("Sender:") >>
ReceiverLabel == << Word("Receiver:") >>
CompanyUpper == << Word("ACME"), Word("SUPPLY") >>
PersonUpper == << Word("JOHN"), Word("SMITH") >>
PersonMixed == << Word("John"), Word("Smith") >>
SurchargeUpper == << Word("RESIDENTIAL"), Word("SURCHARGE") >>
SurchargeMixed == << Word("Residential"), Word("Surcharge") >>
AddressSegment == << IntTok(12), Word("Oak"), Word("Ave"), Word("Atlanta"), Word("GA"),
                     IntTok(30301) >>

SegmentMenu == { SenderLabel, ReceiverLabel, CompanyUpper, PersonUpper, PersonMixed,
                 SurchargeUpper, SurchargeMixed, AddressSegment }

Blocks == { <<Trk("1Z999AA10123456784")>> \o Flatten(ss) : ss \in SeqsUpTo(SegmentMenu, MaxSegments) }

InitResolve ==
    /\ block \in Blocks
    /\ five_fields = <<>>
    /\ candidate_fields = <<>>
    /\ resolve_pc = "input"
    /\ TotalsIdle
    /\ MergeIdle
    /\ ParseIdle
    /\ GroupsIdle
    /\ ProcessIdle

ExtractFiveFields ==
    /\ resolve_pc = "input"
    /\ five_fields' = extract_five_fields(block)
    /\ candidate_fields' = candidate_step(block)
    /\ resolve_pc' = "done"
    /\ UNCHANGED <<block, totals_vars, merge_vars, parse_vars, groups_vars, process_vars>>

NextResolve == ExtractFiveFields

SpecResolve == InitResolve /\ [][NextResolve]_vars

----------------------------------------------------------------------------
(* Claims on the Identity Resolver *)

\* a name holds a word of the deny-list (in any case)
HoldsDeniedWord(name) == \E i \in 1..Len(name) : Lower(name[i]) \in name_deny_words

\* C18 as stated: the sender_name and receiver_name the resolver returns
\* never are, or contain, a term of the deny-list, whether they came from the
\* Sender:/Receiver: label pattern or from the candidate enumeration.
C18_NoDeniedWordInNames ==
    resolve_pc = "done" =>
        /\ ~HoldsDeniedWord(five_fields["sender_name"])
        /\ ~HoldsDeniedWord(five_fields["receiver_name"])

\* the candidates located before and after a position of the block
CandidatesBefore(cands, pos) == {i \in 1..Len(cands) : cands[i].pos < pos}
CandidatesAfter(cands, pos) == {i \in 1..Len(cands) : cands[i].pos > pos}
Earliest(S) == CHOOSE i \in S : \A n \in S : i <= n

\* the rule of the candidate step for one list of candidates
AssignedByMarker(cands, sender_key, receiver_key) ==
    LET receiver_at == LabelAt(block, "receiver:", 1)
        before == CandidatesBefore(cands, receiver_at)
        after == CandidatesAfter(cands, receiver_at)
    IN  IF receiver_at # 0
        THEN /\ before # {} => candidate_fields[sender_key] = cands[Earliest(before)].value
             /\ after # {} => candidate_fields[receiver_key] = cands[Earliest(after)].value
        ELSE cands # <<>> =>
                 /\ candidate_fields[sender_key] = cands[1].value
                 /\ candidate_fields[receiver_key] = cands[Len(cands)].value

\* C26 as stated: when the explicit-label pattern resolved nothing, the
\* sender gets the earliest name and the earliest address candidate located
\* before the Receiver: marker and the receiver the earliest ones located
\* after it; without a marker the sender gets the first and the receiver
\* the last candidate.
C26_CandidatesByReceiverMarker ==
    resolve_pc = "done" /\ explicit_labels(block) = BlankFields =>
        /\ AssignedByMarker(AllNames(block, 1), "sender_name", "receiver_name")
        /\ AssignedByMarker(AllAddresses(block, 1), "sender_address", "receiver_address")

----------------------------------------------------------------------------
(* Document processing: upload_file.process_file runs                       *)
(* process_invoice_with_progress in a thread of its own for every upload.   *)
(* A page of a PDF is the list of its text lines, a line a list of words;   *)
(* every line is one span. A page of the set broken raises in               *)
(* page.get_pixmap, the rendering step of extract_page_data; its text is    *)
(* still readable with page.get_text().                                     *)

MinTextLength == 50         \* "if len(text) < 50"
MinLineLength == 10         \* "len(line.strip()) > 10"
MinMeaningfulLines == 3     \* "len(meaningful_lines) < 3"
MinSpans == 5               \* "len(words) < 5"

\* PDFTextExtractor.is_empty_page
is_empty_page(page) ==
    \/ TextLen(Flatten(page)) < MinTextLength
    \/ Cardinality({i \in 1..Len(page) : TextLen(page[i]) > MinLineLength}) < MinMeaningfulLines

\* DirectPDFExtractor.is_empty_page on a page that renders: words holds the
\* text of every span
direct_is_empty_page(page) == Len(page) < MinSpans

\* PDFTextExtractor._is_shipment_data_line (of its patterns, the reference
\* fields and 'Delivery Area Surcharge' have no word in the vocabulary)
is_shipment_data_line(line) ==
    \/ \E i \in 1..(Len(line) - 1) :
          \/ line[i].k = "date" /\ line[i + 1].k = "trk"
          \/ /\ line[i].k = "word" /\ line[i + 1].k = "word"
             /\ <<Lower(line[i].s), Lower(line[i + 1].s)>> \in
                    { <<"residential", "surcharge">>, <<"fuel", "surcharge">>,
                      <<"customer", "weight">> }
          \/ /\ line[i].k = "word" /\ Lower(line[i].s) = "total"
             /\ line[i + 1].k = "amt" /\ line[i + 1].n >= 0
    \/ \E i \in 1..Len(line) : HasColon(line[i])

\* a word that ends with a run of one to three digits which starts at a word
\* boundary
EndsWithShortNumber(t) ==
    \/ t.k = "int" /\ t.n <= 999
    \/ t.k \in {"date", "dec1", "amt"}

\* the second alternative of the 'zone' pattern,
\* \b(\d{1,3})\s*(?=\s*[\d,]+\.\d{2}), matches in the line: its item gets the
\* text match.group(1), which is None
HasNoneField(line) ==
    \/ \E i \in 1..Len(line) : line[i].k = "amt" /\ Abs(line[i].n) >= 1000
    \/ \E i \in 1..(Len(line) - 1) :
          /\ EndsWithShortNumber(line[i])
          /\ line[i + 1].k = "amt" /\ line[i + 1].n >= 0

\* one of the field patterns of _extract_shipment_fields matches in the line
HasFieldMatch(line) ==
    \E i \in 1..Len(line) :
        \/ line[i].k # "word"
        \/ HasColon(line[i])
        \/ Lower(line[i].s) \in {"ground", "air", "express", "standard", "select", "residential"}

\* the words extract_page_data returns hold None
WordsHoldNone(page) ==
    \E l \in 1..Len(page) : is_shipment_data_line(page[l]) /\ HasNoneField(page[l])

\* the items of one line: a line that is no shipment line, or that no field
\* pattern matches, stays one item (the fragments a shipment line with
\* fields and without None is cut into are not modelled: the pages of the
\* model hold no such line)
ProcessTextLine(line) ==
    CASE ~is_shipment_data_line(line) -> line
      [] is_shipment_data_line(line) /\ ~HasFieldMatch(line) -> line

\* the words of extract_page_data on a page without None
RECURSIVE ExtractPageWords(_)
ExtractPageWords(page) ==
    IF page = <<>> THEN <<>> ELSE ProcessTextLine(page[1]) \o ExtractPageWords(Tail(page))

\* the assignments to a shipment of a page in the matrix pass
TagShipment(s, page_num, group_idx, invoice_header, invoice_number) ==
    LET s1 == Put(Put(s, "page_number", Some(page_num + 1)), "invoice_group", Some(group_idx + 1))
        copied == {key \in DOMAIN invoice_header :
                      ~TruthyStr(Get(s1, key)) /\ TruthyStr(invoice_header[key])}
        s2 == [key \in DOMAIN s1 \cup copied |->
                  IF key \in copied THEN invoice_header[key] ELSE s1[key]]
    IN  IF ~TruthyStr(Get(s2, "invoice_number"))
        THEN Put(s2, "invoice_number", Some(invoice_number))
        ELSE s2

\* invoice_header.get('invoice_number', f'Invoice_{group_idx + 1}')
InvoiceNumberOf(invoice_header, group_idx) ==
    IF "invoice_number" \in DOMAIN invoice_header THEN invoice_header["invoice_number"][1]
    ELSE "Invoice_" \o ToString(group_idx + 1)

\* page_shipments of one page, with the assignments of the loop
PageShipments(u, group, group_idx, page_num, now_year) ==
    Strict(LAMBDA page_shipments :
               [j \in 1..Len(page_shipments) |->
                   TagShipment(page_shipments[j], page_num, group_idx, group.invoice_header,
                               InvoiceNumberOf(group.invoice_header, group_idx))],
           parse_invoice(ExtractPageWords(u.pdf[page_num + 1]), now_year))

\* "for page_num in group['pages']" from the i-th page of the group on, inside
\* the try of the group: raised tells that a page raised, which ends the
\* loop; extract_page_data raises on a page that does not render, and
\* parse_invoice raises in ' '.join(words) of is_invoice_page on None
RECURSIVE GroupShipments(_, _, _, _, _)
GroupShipments(u, group, group_idx, i, now_year) ==
    IF i > Len(group.pages) THEN [raised |-> FALSE, shipments |-> <<>>]
    ELSE LET page_num == group.pages[i]
         IN  IF is_empty_page(u.pdf[page_num + 1])
             THEN GroupShipments(u, group, group_idx, i + 1, now_year)
             ELSE IF page_num \in u.broken \/ WordsHoldNone(u.pdf[page_num + 1])
                  THEN [raised |-> TRUE, shipments |-> <<>>]
             ELSE Strict(LAMBDA rest :
                             [raised |-> rest.raised,
                              shipments |-> PageShipments(u, group, group_idx, page_num, now_year)
                                            \o rest.shipments],
                         GroupShipments(u, group, group_idx, i + 1, now_year))

\* "for group_idx, group in enumerate(invoice_groups)": all_shipments is
\* extended with group_shipments at the end of the try; "except: continue"
RECURSIVE MatrixShipments(_, _, _, _)
MatrixShipments(u, groups, group_idx, now_year) ==
    IF group_idx >= Len(groups) THEN <<>>
    ELSE Strict(LAMBDA r : IF r.raised THEN <<>> ELSE r.shipments,
                GroupShipments(u, groups[group_idx + 1], group_idx, 1, now_year))
         \o MatrixShipments(u, groups, group_idx + 1, now_year)

\* ' '.join(strings)
RECURSIVE JoinStrings(_)
JoinStrings(ss) ==
    IF ss = <<>> THEN ""
    ELSE IF Len(ss) = 1 THEN ss[1]
    ELSE ss[1] \o " " \o JoinStrings(Tail(ss))

TokensText(toks) == JoinStrings([i \in 1..Len(toks) |-> TokText(toks[i])])

\* the matches of (1Z[A-Z0-9]{16}), case-sensitive, from word i on
RECURSIVE TrackingMatches(_, _)
TrackingMatches(text, i) ==
    IF i > Len(text) THEN <<>>
    ELSE (IF text[i].k = "trk" /\ text[i].s \in ValidIdentifiers THEN <<i>> ELSE <<>>)
         \o TrackingMatches(text, i + 1)

\* extracted_data with tracking_number and page_number set, as the strings
\* the merger reads
DirectRecord(data, tracking_number, page_num) ==
    [key \in {"tracking_number", "page_number", "sender_name", "sender_address",
              "receiver_name", "receiver_address"} |->
        CASE key = "tracking_number" -> Some(tracking_number)
          [] key = "page_number" -> Some(page_num)
          [] key \in {"sender_name", "receiver_name"} -> Some(JoinStrings(data[key]))
          [] OTHER -> Some(TokensText(data[key]))]

\* DirectInvoiceParser._extract_shipments_from_page
extract_shipments_from_page(text, page_num) ==
    LET tracking_matches == TrackingMatches(text, 1)
    IN  [i \in 1..Len(tracking_matches) |->
            LET start_pos == tracking_matches[i]
                end_pos == IF i + 1 <= Len(tracking_matches)
                           THEN tracking_matches[i + 1] ELSE Len(text) + 1
                shipment_block == SubSeq(text, start_pos, end_pos - 1)
            IN  Strict(LAMBDA extracted_data :
                           DirectRecord(extracted_data, text[start_pos].s, page_num),
                       extract_five_fields(shipment_block))]

\* "for page_num in range(total_pages)" of extract_direct_fields from page_num
\* on: the try is around the loop, so a page that raises (in is_empty_page,
\* which renders the page) ends it
RECURSIVE DirectPages(_, _)
DirectPages(u, page_num) ==
    IF page_num >= Len(u.pdf) THEN <<>>
    ELSE IF page_num \in u.broken THEN <<>>
    ELSE IF direct_is_empty_page(u.pdf[page_num + 1]) THEN DirectPages(u, page_num + 1)
    ELSE extract_shipments_from_page(Flatten(u.pdf[page_num + 1]), page_num + 1)
         \o DirectPages(u, page_num + 1)

extract_direct_fields(u) == DirectPages(u, 0)

\* page.get_text() of every page
PageTexts(pdf) == [i \in 1..Len(pdf) |-> Flatten(pdf[i])]

\* what process_invoice_with_progress returns and what it saves
Outcome(returned, saved) == Some([returned |-> returned, saved |-> saved, raised |-> FALSE])

\* process_invoice_with_progress raises ("raise e" of its except clause)
Raises == Some([returned |-> <<>>, saved |-> <<>>, raised |-> TRUE])

\* the log of a worker before its first emit
NoEmits == [sent |-> <<>>, failed |-> {}]

\* a helper whose socketio.emit raises catches the exception and logs it
EmitFailure(log, helper, up) == IF up THEN log.failed ELSE log.failed \cup {helper}

\* mutation: emit_progress without its try, the exception of socketio.emit
\* leaves the helper
emit_progress_propagating(log, up) ==
    [log |-> [sent |-> log.sent, failed |-> EmitFailure(log, "emit_progress", up)],
     raised |-> ~up]

\* emit_progress: the log after the call, and whether the call raises
emit_progress(log, up) ==
    [log |-> [sent |-> log.sent, failed |-> EmitFailure(log, "emit_progress", up)],
     raised |-> FALSE]

\* emit_completion
emit_completion(log, up) ==
    [log |-> [sent |-> Append(log.sent, "processing_complete"),
              failed |-> EmitFailure(log, "emit_completion", up)],
     raised |-> FALSE]

\* emit_error
emit_error(log, up) ==
    [log |-> [sent |-> Append(log.sent, "processing_error"),
              failed |-> EmitFailure(log, "emit_error", up)],
     raised |-> FALSE]

\* the worker threads, one per upload
WorkerIds == {1, 2}
Workers == DOMAIN uploads

\* "except Exception as e" of process_invoice_with_progress: emit_error, then
\* raise e (an exception of emit_error would leave the function as well)
ProcessingRaises(w, log) ==
    /\ emit_log' = [emit_log EXCEPT ![w] = emit_error(log, channel_up).log]
    /\ outcome' = [outcome EXCEPT ![w] = Raises]
    /\ worker_pc' = [worker_pc EXCEPT ![w] = "cleanup"]

\* process_invoice_with_progress up to extract_invoice_groups and the
\* progress update that follows it; fitz.open raises on a file that is no PDF
CheckSession(w) ==
    /\ w \in Workers
    /\ worker_pc[w] = "started"
    /\ IF uploads[w].session_id \notin active_sessions
       THEN /\ outcome' = [outcome EXCEPT ![w] = Outcome(<<0, 0>>, <<>>)]
            /\ worker_pc' = [worker_pc EXCEPT ![w] = "cleanup"]
            /\ UNCHANGED <<worker_groups, emit_log>>
       ELSE LET starting == emit_progress(emit_log[w], channel_up)
                found == emit_progress(starting.log, channel_up)
            IN  IF starting.raised \/ ~uploads[w].readable
                THEN ProcessingRaises(w, starting.log) /\ UNCHANGED worker_groups
                ELSE IF found.raised
                THEN ProcessingRaises(w, found.log) /\ UNCHANGED worker_groups
                ELSE /\ worker_groups' = [worker_groups EXCEPT
                                             ![w] = extract_invoice_groups(PageTexts(uploads[w].pdf))]
                     /\ emit_log' = [emit_log EXCEPT ![w] = found.log]
                     /\ worker_pc' = [worker_pc EXCEPT ![w] = "matrix"]
                     /\ UNCHANGED outcome
    /\ UNCHANGED <<active_sessions, pending_joins, uploads, all_shipments, direct_extracted_data,
                   files, channel_up, totals_vars, merge_vars, parse_vars, groups_vars,
                   resolver_vars>>

\* Step 1, the loop over the invoice groups: a progress update, then the
\* pages of the group (every emit of the step meets the same channel)
MatrixExtraction(w) ==
    /\ w \in Workers
    /\ worker_pc[w] = "matrix"
    /\ LET group_progress == IF worker_groups[w] = <<>>
                             THEN [log |-> emit_log[w], raised |-> FALSE]
                             ELSE emit_progress(emit_log[w], channel_up)
       IN  IF group_progress.raised
           THEN ProcessingRaises(w, group_progress.log) /\ UNCHANGED all_shipments
           ELSE /\ all_shipments' = [all_shipments EXCEPT
                                        ![w] = MatrixShipments(uploads[w], worker_groups[w], 0,
                                                               clock_year)]
                /\ emit_log' = [emit_log EXCEPT ![w] = group_progress.log]
                /\ worker_pc' = [worker_pc EXCEPT ![w] = "direct"]
                /\ UNCHANGED outcome
    /\ UNCHANGED <<active_sessions, pending_joins, uploads, worker_groups, direct_extracted_data,
                   files, channel_up, totals_vars, merge_vars, parse_vars, groups_vars,
                   resolver_vars>>

\* Step 2, a progress update and direct_parser.extract_direct_fields(pdf_path)
DirectExtraction(w) ==
    /\ w \in Workers
    /\ worker_pc[w] = "direct"
    /\ LET direct_progress == emit_progress(emit_log[w], channel_up)
       IN  IF direct_progress.raised
           THEN ProcessingRaises(w, direct_progress.log) /\ UNCHANGED direct_extracted_data
           ELSE /\ direct_extracted_data' = [direct_extracted_data EXCEPT
                                                ![w] = extract_direct_fields(uploads[w])]
                /\ emit_log' = [emit_log EXCEPT ![w] = direct_progress.log]
                /\ worker_pc' = [worker_pc EXCEPT ![w] = "merge"]
                /\ UNCHANGED outcome
    /\ UNCHANGED <<active_sessions, pending_joins, uploads, worker_groups, all_shipments,
                   files, channel_up, totals_vars, merge_vars, parse_vars, groups_vars,
                   resolver_vars>>

\* Steps 3 and 4: the merge, the Excel file, the terminal event and the
\* return value; pd.ExcelWriter raises when the file cannot be written, and
\* the file it opened may exist then
MergeAndSave(w) ==
    /\ w \in Workers
    /\ worker_pc[w] = "merge"
    /\ LET merge_progress == emit_progress(emit_log[w], channel_up)
           merged_shipments == merge_direct_fields_with_matrix(all_shipments[w],
                                                               direct_extracted_data[w])
           excel_progress == emit_progress(merge_progress.log, channel_up)
           completion == emit_completion(excel_progress.log, channel_up)
       IN  IF merge_progress.raised
           THEN ProcessingRaises(w, merge_progress.log) /\ UNCHANGED files
           ELSE IF excel_progress.raised
           THEN ProcessingRaises(w, excel_progress.log) /\ UNCHANGED files
           ELSE IF merged_shipments /= <<>> /\ uploads[w].disk = "full"
           THEN /\ ProcessingRaises(w, excel_progress.log)
                /\ \E left_behind \in BOOLEAN :
                       files' = [files EXCEPT ![w].excel = left_behind]
           ELSE IF completion.raised
           THEN /\ ProcessingRaises(w, completion.log)
                /\ files' = [files EXCEPT ![w].excel = (merged_shipments /= <<>>)]
           ELSE /\ files' = [files EXCEPT ![w].excel = (merged_shipments /= <<>>)]
                /\ emit_log' = [emit_log EXCEPT ![w] = completion.log]
                /\ outcome' = [outcome EXCEPT
                                  ![w] = Outcome(<<Len(merged_shipments), Len(worker_groups[w])>>,
                                                 merged_shipments)]
                /\ worker_pc' = [worker_pc EXCEPT ![w] = "cleanup"]
    /\ UNCHANGED <<active_sessions, pending_joins, uploads, worker_groups, all_shipments,
                   direct_extracted_data, channel_up, totals_vars, merge_vars, parse_vars,
                   groups_vars, resolver_vars>>

\* "if os.path.exists(pdf_path): os.remove(pdf_path)" of the try block
RemovePdf(f) == [pdf |-> FALSE, excel |-> f.excel]

\* mutation: the except clause of process_file removes the PDF only
RemoveOnError_keeps_excel(f) == [pdf |-> FALSE, excel |-> f.excel]

\* the except clause of process_file removes the PDF and the Excel file
RemoveOnError(f) == [pdf |-> FALSE, excel |-> FALSE]

\* process_file after process_invoice_with_progress returned or raised: the
\* uploaded PDF is removed, after an exception the Excel file as well, and
\* "if session_id in active_sessions" is evaluated
CleanUp(w) ==
    /\ w \in Workers
    /\ worker_pc[w] = "cleanup"
    /\ files' = [files EXCEPT
                    ![w] = IF outcome[w][1].raised THEN RemoveOnError(files[w])
                           ELSE RemovePdf(files[w])]
    /\ worker_pc' = [worker_pc EXCEPT
                        ![w] = IF uploads[w].session_id \notin active_sessions THEN "finished"
                               ELSE IF outcome[w][1].raised THEN "delete_after_error"
                               ELSE "delete"]
    /\ UNCHANGED <<active_sessions, pending_joins, uploads, worker_groups, all_shipments,
                   direct_extracted_data, outcome, emit_log, channel_up, totals_vars, merge_vars,
                   parse_vars, groups_vars, resolver_vars>>

\* "del active_sessions[session_id]" of process_file: when another thread
\* deleted the key since the test, the statement raises KeyError; in the try
\* block that leads to the except clause, which removes the PDF and the Excel
\* file and tests the key again, in the except clause it ends the thread
DeleteSession(w) ==
    /\ w \in Workers
    /\ worker_pc[w] \in {"delete", "delete_after_error"}
    /\ active_sessions' = active_sessions \ {uploads[w].session_id}
    /\ files' = [files EXCEPT
                    ![w] = IF worker_pc[w] = "delete"
                              /\ uploads[w].session_id \notin active_sessions
                           THEN RemoveOnError(files[w])
                           ELSE files[w]]
    /\ worker_pc' = [worker_pc EXCEPT ![w] = "finished"]
    /\ UNCHANGED <<pending_joins, uploads, worker_groups, all_shipments, direct_extracted_data,
                   outcome, emit_log, channel_up, totals_vars, merge_vars, parse_vars,
                   groups_vars, resolver_vars>>

\* handle_join_session
JoinSession(session_id) ==
    /\ session_id \in pending_joins
    /\ active_sessions' = active_sessions \cup {session_id}
    /\ pending_joins' = pending_joins \ {session_id}
    /\ UNCHANGED <<uploads, worker_pc, worker_groups, all_shipments, direct_extracted_data,
                   outcome, files, emit_log, channel_up, totals_vars, merge_vars, parse_vars,
                   groups_vars, resolver_vars>>

\* the reporting channel becomes unavailable, or available again
ChannelChange ==
    /\ channel_up' = ~channel_up
    /\ UNCHANGED <<active_sessions, pending_joins, uploads, worker_pc, worker_groups,
                   all_shipments, direct_extracted_data, outcome, files, emit_log,
                   totals_vars, merge_vars, parse_vars, groups_vars, resolver_vars>>

\* the lines and pages of the documents
MainLineB == << DateTok(815), Trk("1Z999AA10123456785"), Word("Ground"), Word("Residential"),
                IntTok(30301), IntTok(2), Dec1(50), Amt(1000), Amt(-200), Amt(800) >>
FirstPage == << TitleLine, InvoiceDateLine, PageLine >>
\* a shipment whose date and whose label 'Fuel' are lines of their own
DetailPageA == << <<DateTok(814)>>, Tail(MainLine), <<Word("Fuel")>>, Tail(FuelLine), PageTwoLine >>
DetailPageB == << <<DateTok(815)>>, Tail(MainLineB), <<Word("Fuel")>>, Tail(FuelLine), PageTwoLine >>
\* a shipment in one line
OneLinePage == << MainLine, FuelLine, PageTwoLine >>
BlankPage == << PageTwoLine >>

ProcessPageMenu == { FirstPage, DetailPageA, DetailPageB, OneLinePage, BlankPage }
ProcessDocs == SeqsUpTo(ProcessPageMenu, MaxPages)

\* the uploads of the sessions S: a PDF and the pages of it that fail to
\* render; the file is a PDF and the Excel file can be written
UploadsOf(S) ==
    UNION { [session_id : S, pdf : {d}, broken : SUBSET (0..(Len(d) - 1)),
             readable : {TRUE}, disk : {"ok"}] : d \in ProcessDocs }

\* the threads are started and nothing was computed yet
ThreadsStarted(W) ==
    /\ worker_pc = [w \in W |-> "started"]
    /\ worker_groups = [w \in W |-> <<>>]
    /\ all_shipments = [w \in W |-> <<>>]
    /\ direct_extracted_data = [w \in W |-> <<>>]
    /\ outcome = [w \in W |-> None]
    /\ files = [w \in W |-> [pdf |-> TRUE, excel |-> FALSE]]
    /\ emit_log = [w \in W |-> NoEmits]
    /\ clock_year \in ClockYears
    /\ NothingParsed
    /\ ExtractIdle
    /\ TotalsIdle
    /\ MergeIdle
    /\ GroupsIdle
    /\ ResolverIdle

\* one upload, made by a client that joined its session
InitPages ==
    /\ uploads \in [{1} -> UploadsOf({"s1"})]
    /\ active_sessions = {"s1"}
    /\ pending_joins = {}
    /\ channel_up = TRUE
    /\ ThreadsStarted({1})

NextPages ==
    \E w \in WorkerIds :
        \/ CheckSession(w)
        \/ MatrixExtraction(w)
        \/ DirectExtraction(w)
        \/ MergeAndSave(w)
        \/ CleanUp(w)
        \/ DeleteSession(w)

SpecPages == InitPages /\ [][NextPages]_vars

\* two uploads, made by clients that joined their sessions; a client may
\* send join_session once more (pending_joins)
SessionIds == {"s1", "s2"}
SampleDocs == { <<FirstPage, DetailPageA>>, <<FirstPage, DetailPageB>> }

InitUploads ==
    /\ uploads \in [WorkerIds -> [session_id : SessionIds, pdf : SampleDocs, broken : {{}},
                                   readable : {TRUE}, disk : {"ok"}]]
    /\ active_sessions = {uploads[w].session_id : w \in WorkerIds}
    /\ pending_joins \in SUBSET SessionIds
    /\ channel_up = TRUE
    /\ ThreadsStarted(WorkerIds)

NextUploads ==
    \/ \E w \in WorkerIds :
            \/ CheckSession(w)
            \/ MatrixExtraction(w)
            \/ DirectExtraction(w)
            \/ MergeAndSave(w)
            \/ CleanUp(w)
            \/ DeleteSession(w)
    \/ \E session_id \in SessionIds : JoinSession(session_id)

SpecUploads == InitUploads /\ [][NextUploads]_vars

\* one upload of a client that joined its session, while the reporting
\* channel comes and goes: a file that is no PDF, an Excel file that cannot
\* be written, a document without shipments
ChannelDocs == SampleDocs \cup { <<FirstPage, BlankPage>> }

InitChannel ==
    /\ uploads \in [{1} -> [session_id : {"s1"}, pdf : ChannelDocs, broken : {{}},
                             readable : BOOLEAN, disk : {"ok", "full"}]]
    /\ active_sessions = {"s1"}
    /\ pending_joins = {}
    /\ channel_up \in BOOLEAN
    /\ ThreadsStarted({1})

NextChannel ==
    \/ \E w \in WorkerIds :
            \/ CheckSession(w)
            \/ MatrixExtraction(w)
            \/ DirectExtraction(w)
            \/ MergeAndSave(w)
            \/ CleanUp(w)
            \/ DeleteSession(w)
    \/ ChannelChange

SpecChannel == InitChannel /\ [][NextChannel]_vars

\* two accepted uploads whose clients send join_session at any time, before
\* or after the worker checks the session: documents with and without
\* shipments, a file that is no PDF, an Excel file that cannot be written
Upload(session_id, pdf, readable, disk) ==
    [session_id |-> session_id, pdf |-> pdf, broken |-> {}, readable |-> readable, disk |-> disk]

EventUploads ==
    { Upload("s1", <<FirstPage, DetailPageA>>, TRUE, "ok"),
      Upload("s2", <<FirstPage, DetailPageB>>, TRUE, "ok"),
      Upload("s1", <<FirstPage, DetailPageB>>, FALSE, "ok"),
      Upload("s1", <<FirstPage, DetailPageB>>, TRUE, "full"),
      Upload("s2", <<FirstPage, BlankPage>>, TRUE, "ok") }

InitEvents ==
    /\ uploads \in [WorkerIds -> EventUploads]
    /\ active_sessions = {}
    /\ pending_joins = SessionIds
    /\ channel_up = TRUE
    /\ ThreadsStarted(WorkerIds)

NextEvents ==
    \/ \E w \in WorkerIds :
            \/ CheckSession(w)
            \/ MatrixExtraction(w)
            \/ DirectExtraction(w)
            \/ MergeAndSave(w)
            \/ CleanUp(w)
            \/ DeleteSession(w)
    \/ \E session_id \in SessionIds : JoinSession(session_id)

SpecEvents == InitEvents /\ [][NextEvents]_vars

----------------------------------------------------------------------------
(* Claims on page failures *)

InSeq(x, seq) == \E i \in 1..Len(seq) : seq[i] = x

\* the pages of an upload that do not fail and are not empty in the matrix pass
MatrixReadable(u, page_num) ==
    /\ page_num \notin u.broken
    /\ ~WordsHoldNone(u.pdf[page_num + 1])
    /\ ~is_empty_page(u.pdf[page_num + 1])

\* the records of the matrix pass hold every record of every readable page of every group
MatrixPassKeepsOtherPages(w) ==
    \A g \in 1..Len(worker_groups[w]) :
        \A i \in 1..Len(worker_groups[w][g].pages) :
            LET page_num == worker_groups[w][g].pages[i]
                recs == PageShipments(uploads[w], worker_groups[w][g], g - 1, page_num, clock_year)
            IN  MatrixReadable(uploads[w], page_num) =>
                    \A j \in 1..Len(recs) : InSeq(recs[j], all_shipments[w])

\* the tuples of the resolver pass hold every tuple of every page that renders
DirectPassKeepsOtherPages(w) ==
    \A page_num \in 0..(Len(uploads[w].pdf) - 1) :
        LET text == Flatten(uploads[w].pdf[page_num + 1])
            recs == extract_shipments_from_page(text, page_num + 1)
        IN  page_num \notin uploads[w].broken /\ ~direct_is_empty_page(uploads[w].pdf[page_num + 1])
                => \A j \in 1..Len(recs) : InSeq(recs[j], direct_extracted_data[w])

\* C19 as stated: when a page fails, only that page is skipped: after the
\* matrix pass the records of every other page of the document are in
\* all_shipments, and after the resolver pass the tuples of every other page
\* are in the resolver's output.
C19_OnlyFailingPageSkipped ==
    \A w \in Workers :
        /\ worker_pc[w] \in {"direct", "merge"} => MatrixPassKeepsOtherPages(w)
        /\ worker_pc[w] = "merge" => DirectPassKeepsOtherPages(w)

----------------------------------------------------------------------------
(* Claims on concurrent uploads *)

\* what process_invoice_with_progress returns and saves for an upload whose
\* session is active, computed from the upload alone
OutcomeAlone(u, now_year) ==
    LET groups == extract_invoice_groups(PageTexts(u.pdf))
        merged_shipments == merge_direct_fields_with_matrix(
                                MatrixShipments(u, groups, 0, now_year), extract_direct_fields(u))
    IN  IF ~u.readable THEN Raises
        ELSE Strict(LAMBDA merged :
                        IF merged /= <<>> /\ u.disk = "full" THEN Raises
                        ELSE Outcome(<<Len(merged), Len(groups)>>, merged),
                    merged_shipments)

\* C20 as stated: no shared mutable state crosses the tasks: what a worker
\* returns and saves for its upload is the same under every interleaving with
\* the other worker and with join_session, also when both uploads use the
\* same session id; it is what the worker produces for the upload alone.
C20_OutcomeSameUnderEveryInterleaving ==
    \A w \in Workers :
        worker_pc[w] = "finished" => outcome[w] = OutcomeAlone(uploads[w], clock_year)

----------------------------------------------------------------------------
(* Claims on the reporting channel *)

\* C21: a failure of the reporting channel never fails the pipeline: whenever
\* socketio.emit raises inside emit_progress, emit_completion or emit_error,
\* process_invoice_with_progress returns (or raises) and saves what it does
\* for the same upload when every emit succeeds.
C21_EmitFailureKeepsOutcome ==
    \A w \in Workers :
        worker_pc[w] \in {"cleanup", "finished"}
            => outcome[w] = OutcomeAlone(uploads[w], clock_year)

\* a worker whose progress and completion emits raised and that returned records
C21_Witness ==
    \E w \in Workers :
        /\ worker_pc[w] = "finished"
        /\ emit_log[w].failed = {"emit_progress", "emit_completion"}
        /\ outcome[w] # None
        /\ ~outcome[w][1].raised
        /\ outcome[w][1].returned[1] >= 1

----------------------------------------------------------------------------
(* Claims on the end of a worker *)

\* C28 as stated: every accepted upload leads to exactly one terminal event
\* (processing_complete or processing_error) once its worker ran to its end,
\* whatever the order of join_session and upload and whatever other uploads
\* run at the same time.
C28_ExactlyOneTerminalEvent ==
    \A w \in Workers :
        worker_pc[w] = "finished" => Len(emit_log[w].sent) = 1

\* C29: when a worker ends, on every path, the uploaded PDF is deleted and
\* the step that ends the worker leaves its session id out of
\* active_sessions; when processing raised, the Excel file does not exist.
C29_WorkerEndCleansUp ==
    /\ [](\A w \in Workers :
              worker_pc[w] = "finished"
                  => /\ ~files[w].pdf
                     /\ outcome[w][1].raised => ~files[w].excel)
    /\ [][\A w \in Workers :
              worker_pc[w] # "finished" /\ worker_pc'[w] = "finished"
                  => uploads[w].session_id \notin active_sessions']_vars

\* a worker ended after the Excel file could not be written, its session
\* having been active
C29_Witness ==
    \E w \in Workers :
        /\ worker_pc[w] = "finished"
        /\ uploads[w].disk = "full"
        /\ outcome[w][1].raised
        /\ emit_log[w].sent = <<"processing_error">>
        /\ ~files[w].pdf /\ ~files[w].excel

----------------------------------------------------------------------------
(* Claims on the conversions of _extract_field_value                        *)

\* text that float() reads, and text that int() reads
IsDecimalText(t) == t.k \in {"int", "dec1", "amt"}
IsIntegerText(t) == t.k = "int"

\* whether the conversion of data type type reads the word t
Converts(type, t) ==
    CASE type = "integer" -> IsIntegerText(t)
      [] type \in {"float", "currency"} -> IsDecimalText(t)
      [] OTHER -> TRUE

NumericTypes == {"currency", "float", "integer"}
HandledFields == {handled[i].field_name : i \in 1..Len(handled)}

InvoiceYearOf(d) == Get(d, "invoice_year")

\* C25: date coercion: a month/day value is resolved with the invoice's derived
\* year, MM/DD/YY gives the ISO date of the year 2000 + YY, MM/DD/YYYY the
\* ISO date of that year, and any other text is returned as it is.
C25_DateCoercion ==
    \A i \in 1..Len(handled) :
        LET m == handled[i]
            t == m.group
            v == Get(extracting, m.field_name)
        IN  DataTypeOf(m.field_name) = "date" =>
                CASE t.k = "date" ->
                        /\ v = Some(IsoDate(v[1].year, t.n))
                        /\ TruthyNum(InvoiceYearOf(extracting)) => v[1].year = InvoiceYearOf(extracting)[1]
                  [] t.k = "date_yy" -> v = Some(IsoDate(2000 + t.n \div 10000, t.n % 10000))
                  [] t.k = "date_yyyy" -> v = Some(IsoDate(t.n \div 10000, t.n % 10000))
                  [] OTHER -> v = Some(TokText(t))

----------------------------------------------------------------------------
(* Claims on the catalog loop and on the invoice header                     *)

\* the traces of all calls of process_shipment_matrix, as <<call of
\* parse_invoice, matrix>>
LoggedCalls == {c \in (1..Len(catalog_log)) \X (1..MaxLines) : c[2] <= Len(catalog_log[c[1]])}
LogEntry(c) == catalog_log[c[1]][c[2]]
LoggedText(c) == shipment_matrices[c[2]].matrix_text

PriorityOf(n) == field_definitions[n].priority

\* C22 as stated: the catalog loop tries the fields in priority order: no
\* field of priority 2 is tried before a field of priority 1.
C22_FieldsTriedInPriorityOrder ==
    \A c \in LoggedCalls :
        LET v == LogEntry(c).visited
        IN  \A a \in 1..Len(v) : \A b \in 1..Len(v) :
                a < b => ~(PriorityOf(v[a]) = 2 /\ PriorityOf(v[b]) = 1)

\* the patterns of a list that match the text
MatchingPatterns(patterns, toks) ==
    {i \in 1..Len(patterns) : SearchAlt(patterns[i].alts, toks) # Fail}

\* the coerced capture of pattern i of field n
CoercedCapture(n, toks, i, now_year) ==
    LET field_def == field_definitions[n]
        patterns == compiled_patterns(field_def.field_name)
        r == SearchAlt(patterns[i].alts, toks)
    IN  Get(extract_field_value(EmptyDict, field_def, patterns, toks, <<i, r[1], r[2]>>, now_year),
            field_def.field_name)

\* what the statement gives field n after the loop
ValueByFirstPattern(before, toks, n, now_year) ==
    LET f == field_definitions[n].field_name
        hits == MatchingPatterns(compiled_patterns(f), toks)
    IN  IF Get(before, f) # None THEN Get(before, f)
        ELSE IF hits = {} THEN None
        ELSE CoercedCapture(n, toks, CHOOSE i \in hits : \A j \in hits : i <= j, now_year)

=============================================================================
